---- MODULE Spec2Model ----
(***************************************************************************)
(* Model of the retrieval pipeline of the civic-legislation knowledge      *)
(* base: the segmenter (src/src/chunker.rs), the lazily initialised        *)
(* encoder cache and the batch encoder (src/src/embedder.rs), the vector   *)
(* store client (src/src/vector_store.rs); and of the forum: moderation    *)
(* (src/src/moderation.rs), the rate limit of submissions                  *)
(* (src/src/rate_limit.rs, src/src/web.rs) and the votes (src/src/db.rs).  *)
(*                                                                         *)
(* Strings are sequences of tokens.  A token stands for a fixed piece of   *)
(* text:                                                                   *)
(*   "NL"   "\n"                    "SP"   " "                             *)
(*   "D1"   "1."                    "D2"   "2."                            *)
(*   "CH"   "CHAPTER IV"            "PRE"  "PREAMBLE"                      *)
(*   "SCH"  "SCHEDULE"              "ST"   "Short title"                   *)
(*   "bie"  "be it enacted"         "sch"  "schedule"                      *)
(*   "X5"   "xxxxx"                 "X60"  sixty times "x"                 *)
(*   "X48"  48 times "x"            "X49"  49 times "x"                    *)
(*   "P300" "x x ... x", three hundred one-letter words (599 characters)   *)
(*   "P200" "x x ... x", two hundred one-letter words (399 characters)     *)
(* Regular expressions, trimming, splitting and word counting are          *)
(* computed on the tokens as the code computes them on the characters.     *)
(***************************************************************************)
EXTENDS Integers, Sequences, FiniteSets, TLC

VARIABLES
    text,          \* chunk_text: the input text
    bill_number,   \* chunk_text: the bill_number argument
    cpc,           \* segmenter driver: "start", "once", "twice"
    chunks1,       \* result of the first chunk_text call
    chunks2,       \* result of the second chunk_text call on the same input
    pc,            \* per caller: its position in embed_chunks / embed_query
    lockOwner,     \* holder of the guard of EMBEDDING_MODEL, 0 when free
    cache,         \* the Option in EMBEDDING_MODEL: 0 for None, else the model
    attempts,      \* constructions started (the n-th builds model n)
    successes,     \* constructions that returned Ok
    result,        \* per caller: what get_or_init_model returned in this call
    got,           \* per caller: what the worker's unwrap() yielded
    calls,         \* per caller: calls made so far
    waited,        \* per caller: it stood at lock().await during a construction
    waitedFail,    \* per caller: a construction failed while it stood there
    ownAttempt,    \* per caller: outcome of the construction it ran in this call
    in_chunks,     \* embed_chunks: the chunks argument
    texts,         \* embed_chunks: the texts prepared for embedding
    all_embeddings,\* embed_chunks: the vectors collected so far
    pos,           \* embed_chunks: texts already handed to encode_batch
    epc,           \* embed_chunks: "start", "encoding", "zip", "done", "failed"
    embedded,      \* embed_chunks: the returned embedded chunks
    encodings,     \* encode_batch: what the tokenizer returned for each text
    weights,       \* encode_batch: the parameters of the loaded model
    token_ids_padded,       \* encode_batch: the rows of the id tensor
    attention_masks_padded, \* encode_batch: the rows of the mask tensor
    hidden,        \* encode_batch: the output of the forward pass
    pooled,        \* encode_batch: per text, the masked sum and its divisor
    ppc,           \* encode_batch: "start", "forward", "done"
    collection,    \* the store: whether the collection exists, and its points
    uuids,         \* point ids handed out so far by Uuid::new_v4
    spc,           \* the command line: "idle", "list", "delete", "create", "upsert"
    collection_exists, \* initialize_collection: what the listing showed
    ingest_text,   \* Ingest: the text extracted from the bill's PDF
    points,        \* store_chunks: the points built from the chunks
    sent,          \* store_chunks: the upsert requests sent, in order
    outcome,       \* what the last finished command returned
    cmds,          \* commands started so far
    stored,        \* chunks stored by store_chunks calls since the last Init
    clean,         \* every store_chunks since the last successful Init succeeded
    query,  \* Query: the query text
    limit,  \* Query: the number of hits asked for
    encoder,  \* which of the encoders the model file holds
    query_vector,  \* Query: what embed_query returned
    response,  \* search: how the request ended and the hits of the response
    results,  \* search: the returned SearchResults
    qpc, \* Query: "start", "search", "done"
    post,  \* check_content: the content of the post to moderate
    ollama,  \* check_content: how the request to Ollama ended, and its reply
    moderation,  \* what check_content returned
    status,  \* submit_review_handler: the status the post is stored with
    mpc, \* moderation: "start", "checked", "done"
    now,  \* Utc::now(), in half hours
    rate_limits,  \* the post_create rows of the user in rate_limits: how many per timestamp
    posts,  \* the rows of the user in posts: how many per created_at
    hpc,  \* per submission in flight: its place in submit_review_handler
    http,  \* per submission in flight: the status of the last response
    submissions, \* submissions started so far
    unique_votes,  \* whether post_votes allows one row per post and user only
    post_votes,  \* the rows of the post in post_votes: how many per user and vote_type
    upvotes,  \* posts.upvotes of the post
    downvotes,  \* posts.downvotes of the post
    vpc,  \* per call in flight: the statement it runs next
    vcall,  \* per call in flight: user, upvote or downvote, and the row it found
    vret,  \* per call in flight: what the last call returned
    votes_started  \* calls started so far

chunkVars == <<text, bill_number, cpc, chunks1, chunks2>>

cacheVars == <<pc, lockOwner, cache, attempts, successes, result, got, calls,
               waited, waitedFail, ownAttempt>>

embedVars == <<in_chunks, texts, all_embeddings, pos, epc, embedded>>

poolVars == <<encodings, weights, token_ids_padded, attention_masks_padded,
              hidden, pooled, ppc>>

storeVars == <<collection, uuids, spc, collection_exists, ingest_text, points, sent,
               outcome, cmds, stored, clean>>

searchVars == <<query, limit, encoder, query_vector, response, results, qpc>>

modVars == <<post, ollama, moderation, status, mpc>>

rateVars == <<now, rate_limits, posts, hpc, http, submissions>>

voteVars == <<unique_votes, post_votes, upvotes, downvotes, vpc, vcall, vret, votes_started>>

vars == <<chunkVars, cacheVars, embedVars, poolVars, storeVars, searchVars, modVars, rateVars, voteVars>>

----------------------------------------------------------------------------
(* Bounds *)

MaxLenFull == 3     \* texts over the classification tokens
MaxLenCore == 5     \* texts over clause markers, white space and filler
MaxLenPara == 6     \* texts over paragraph-sized tokens
MaxLenEdge == 5     \* texts with sections of 50 and of 51 characters
MaxTotalCalls == 3  \* calls of all callers together under fair scheduling
NumCallers == 2     \* concurrent callers of embed_chunks / embed_query
MaxCalls == 2       \* calls each caller makes
MaxChunks == 17     \* chunks handed to embed_chunks
MaxBatch == 2       \* texts in one encode_batch call
MaxTokens == 3      \* tokens the tokenizer returns for one text
MaxRest == 1        \* chunks of a bill beyond its full upsert batches
MaxCmds == 3        \* commands run one after the other
MaxLimit == 3       \* the largest limit of a query
MaxParas == 3       \* blank-line paragraphs before the marker of a text
MaxWords == 3       \* words of a moderated post
NumSubmitters == 2  \* submissions of one user in flight at once
MaxSubmissions == 6 \* submissions of the user
MaxTime == 3        \* half hours the clock runs
NumVoters == 2      \* users voting on the post
NumVoteCalls == 2   \* upvote_post / downvote_post calls in flight at once
MaxVoteCalls == 4   \* calls on the post

----------------------------------------------------------------------------
(* Strings *)

FullTokens == {"NL", "D1", "CH", "PRE", "SCH", "ST", "bie", "sch", "X5", "X60"}
CoreTokens == {"NL", "SP", "D1", "D2", "X60"}
ParaTokens == {"NL", "D1", "P300"}
EdgeTokens == {"NL", "D1", "X48", "X49"}

TokLen(t) ==
    CASE t \in {"NL", "SP", "x"} -> 1
      [] t \in {"D1", "D2", "be", "it"} -> 2
      [] t = "CH" -> 10
      [] t \in {"PRE", "SCH", "sch"} -> 8
      [] t = "ST" -> 11
      [] t = "bie" -> 13
      [] t = "enacted" -> 7
      [] t = "X5" -> 5
      [] t = "X48" -> 48
      [] t = "X49" -> 49
      [] t = "X60" -> 60
      [] t = "P300" -> 599
      [] t = "P200" -> 399

RECURSIVE StrLen(_)
StrLen(s) == IF s = <<>> THEN 0 ELSE TokLen(Head(s)) + StrLen(Tail(s))

IsWs(t) == t \in {"NL", "SP"}

RECURSIVE TrimStart(_)
TrimStart(s) ==
    IF s = <<>> THEN s
    ELSE IF IsWs(Head(s)) THEN TrimStart(Tail(s)) ELSE s

RECURSIVE TrimEnd(_)
TrimEnd(s) ==
    IF s = <<>> THEN s
    ELSE IF IsWs(s[Len(s)]) THEN TrimEnd(SubSeq(s, 1, Len(s) - 1)) ELSE s

Trim(s) == TrimEnd(TrimStart(s))

\* The characters of a token that holds white space inside.
TokAtoms(t) ==
    CASE t = "bie" -> <<"be", "SP", "it", "SP", "enacted">>
      [] t = "P300" -> [i \in 1..599 |-> IF i % 2 = 1 THEN "x" ELSE "SP"]
      [] t = "P200" -> [i \in 1..399 |-> IF i % 2 = 1 THEN "x" ELSE "SP"]
      [] OTHER -> <<t>>

RECURSIVE Expand(_)
Expand(s) == IF s = <<>> THEN <<>> ELSE TokAtoms(Head(s)) \o Expand(Tail(s))

\* str::split_whitespace().take(n) on an expanded string a read from
\* position i: the first n maximal runs of non-white-space tokens.
RECURSIVE WordsFrom(_, _, _, _)
WordsFrom(a, i, cur, n) ==
    IF n = 0 THEN <<>>
    ELSE IF i > Len(a) THEN (IF cur = <<>> THEN <<>> ELSE <<cur>>)
    ELSE IF IsWs(a[i])
         THEN IF cur = <<>> THEN WordsFrom(a, i + 1, <<>>, n)
              ELSE <<cur>> \o WordsFrom(a, i + 1, <<>>, n - 1)
         ELSE WordsFrom(a, i + 1, Append(cur, a[i]), n)

take_words(s, n) == WordsFrom(Expand(s), 1, <<>>, n)

\* words.join(" ")
RECURSIVE JoinSpace(_)
JoinSpace(ws) ==
    IF ws = <<>> THEN <<>>
    ELSE IF Len(ws) = 1 THEN ws[1]
    ELSE ws[1] \o <<"SP">> \o JoinSpace(Tail(ws))

\* str::lines().next().unwrap_or(""): the text before the first "\n".
RECURSIVE FirstLine(_)
FirstLine(s) ==
    IF s = <<>> THEN <<>>
    ELSE IF Head(s) = "NL" THEN <<>>
    ELSE <<Head(s)>> \o FirstLine(Tail(s))

\* text.split("\n\n"): the pieces between the non-overlapping occurrences of
\* two newlines, found from the left; a piece is the span lo..hi of the text
\* (hi = lo - 1 for an empty piece).
RECURSIVE SplitFrom(_, _, _)
SplitFrom(s, start, i) ==
    IF i > Len(s) THEN <<[lo |-> start, hi |-> Len(s)]>>
    ELSE IF s[i] = "NL" /\ i + 1 <= Len(s) /\ s[i + 1] = "NL"
         THEN <<[lo |-> start, hi |-> i - 1]>> \o SplitFrom(s, i + 2, i + 2)
         ELSE SplitFrom(s, start, i + 1)

SplitBlank(s) == SplitFrom(s, 1, 1)

Span(s, sp) == SubSeq(s, sp.lo, sp.hi)

----------------------------------------------------------------------------
(* chunker.rs *)

\* section_pattern: (?m)^(\d+\.|CHAPTER [IVXLCDM]+|PREAMBLE|SCHEDULE|Short title)
IsMarker(t) == t \in {"D1", "D2", "CH", "PRE", "SCH", "ST"}

AtLineStart(s, i) == i = 1 \/ s[i - 1] = "NL"

\* section_pattern.find_iter(text): the start positions of the matches.
\* (The positions lo..hi are searched by halves, which gives the matches in
\* the order of a scan from the left.)
RECURSIVE MatchesIn(_, _, _)
MatchesIn(s, lo, hi) ==
    IF lo > hi THEN <<>>
    ELSE IF lo = hi
         THEN IF IsMarker(s[lo]) /\ AtLineStart(s, lo) THEN <<lo>> ELSE <<>>
         ELSE MatchesIn(s, lo, (lo + hi) \div 2)
                  \o MatchesIn(s, (lo + hi) \div 2 + 1, hi)

find_iter(s) == MatchesIn(s, 1, Len(s))

\* split_into_sections without its "Add the last section" step.
split_into_sections_dropLast(s) ==
    LET matches == find_iter(s)
        marked == [k \in 1..(Len(matches) - 1) |->
                     [lo |-> matches[k], hi |-> matches[k + 1] - 1]]
    IN  IF marked # <<>> THEN marked
        ELSE SelectSeq(SplitBlank(s), LAMBDA sp : Trim(Span(s, sp)) # <<>>)

\* split_into_sections with each section running one position into the next.
split_into_sections_overlap(s) ==
    LET matches == find_iter(s)
        marked == [k \in 1..Len(matches) |->
                     [lo |-> matches[k],
                      hi |-> IF k < Len(matches) THEN matches[k + 1] ELSE Len(s)]]
    IN  IF marked # <<>> THEN marked
        ELSE SelectSeq(SplitBlank(s), LAMBDA sp : Trim(Span(s, sp)) # <<>>)

\* The spans of the sections, in order.
split_into_sections(s) ==
    LET matches == find_iter(s)
        marked == [k \in 1..Len(matches) |->
                     [lo |-> matches[k],
                      hi |-> IF k < Len(matches) THEN matches[k + 1] - 1 ELSE Len(s)]]
    IN  IF marked # <<>> THEN marked
        ELSE SelectSeq(SplitBlank(s), LAMBDA sp : Trim(Span(s, sp)) # <<>>)

\* to_lowercase().contains(..)
ContainsLower(s, toks) == \E i \in 1..Len(s) : s[i] \in toks

\* CHAPTER ([IVXLCDM]+) searched in the first line: the leftmost heading; the
\* numeral runs on into a following "C" of a second heading.
ChapterAt(line) == CHOOSE i \in 1..Len(line) :
                      /\ line[i] = "CH"
                      /\ \A j \in 1..(i - 1) : line[j] # "CH"

ChapterNumeral(line) ==
    LET i == ChapterAt(line)
    IN  IF i < Len(line) /\ line[i + 1] = "CH" THEN "IVC" ELSE "IV"

ClauseNumber(t) == IF t = "D1" THEN "1" ELSE "2"

\* identify_chunk_type with the schedule rule tried before the clause rule.
identify_chunk_type_scheduleFirst(section) ==
    LET first_line == Trim(FirstLine(section))
    IN  IF ContainsLower(section, {"bie"}) \/ ContainsLower(section, {"PRE"})
        THEN [type |-> "Preamble", identifier |-> <<"Preamble">>]
        ELSE IF \E i \in 1..Len(first_line) : first_line[i] = "CH"
        THEN [type |-> "Section",
              identifier |-> <<"Chapter ", ChapterNumeral(first_line)>>]
        ELSE IF ContainsLower(section, {"SCH", "sch"})
        THEN [type |-> "Schedule", identifier |-> <<"Schedule">>]
        ELSE IF first_line # <<>> /\ first_line[1] \in {"D1", "D2"}
        THEN [type |-> "Clause",
              identifier |-> <<"Clause ", ClauseNumber(first_line[1])>>]
        ELSE [type |-> "Other",
              identifier |->
                  IF StrLen(first_line) > 5 /\ StrLen(first_line) < 100
                  THEN first_line
                  ELSE JoinSpace(take_words(first_line, 8))]

identify_chunk_type(section) ==
    LET first_line == Trim(FirstLine(section))
    IN  IF ContainsLower(section, {"bie"}) \/ ContainsLower(section, {"PRE"})
        THEN [type |-> "Preamble", identifier |-> <<"Preamble">>]
        ELSE IF \E i \in 1..Len(first_line) : first_line[i] = "CH"
        THEN [type |-> "Section",
              identifier |-> <<"Chapter ", ChapterNumeral(first_line)>>]
        ELSE IF first_line # <<>> /\ first_line[1] \in {"D1", "D2"}
        THEN [type |-> "Clause",
              identifier |-> <<"Clause ", ClauseNumber(first_line[1])>>]
        ELSE IF ContainsLower(section, {"SCH", "sch"})
        THEN [type |-> "Schedule", identifier |-> <<"Schedule">>]
        ELSE [type |-> "Other",
              identifier |->
                  IF StrLen(first_line) > 5 /\ StrLen(first_line) < 100
                  THEN first_line
                  ELSE JoinSpace(take_words(first_line, 8))]

extract_identifier(chunk, index) ==
    LET first_line == FirstLine(chunk)
    IN  IF StrLen(first_line) > 10 /\ StrLen(first_line) < 100
        THEN Trim(first_line)
        ELSE <<"Section ", ToString(index + 1)>>

\* split_whitespace().count(); a token with white space inside holds
\* TokWords words, of which the first and the last run on into its neighbours.
TokWords(t) ==
    CASE t = "bie" -> 3 [] t = "P300" -> 300 [] t = "P200" -> 200 [] OTHER -> 1

RECURSIVE CountWords(_, _)
CountWords(s, inWord) ==
    IF s = <<>> THEN 0
    ELSE IF IsWs(Head(s)) THEN CountWords(Tail(s), FALSE)
    ELSE (IF inWord THEN 0 ELSE 1) + (TokWords(Head(s)) - 1)
         + CountWords(Tail(s), TRUE)

WordCount(s) == CountWords(s, FALSE)

\* A TextChunk; lo..hi is the part of the input text the chunk was cut from
\* (not a field of the struct).
TextChunk(id, number, index, type, identifier, content, lo, hi) ==
    [bill_id |-> id, bill_number |-> number, chunk_index |-> index,
     chunk_type |-> type, chunk_identifier |-> identifier,
     content |-> content, lo |-> lo, hi |-> hi]

\* The loop of fallback_chunking over paragraphs k.., with the chunks pushed
\* so far, the accumulated current_chunk (cut from curLo..curHi) and the
\* running chunk_index; then the push of the last chunk.
RECURSIVE FallbackLoop(_, _, _, _, _, _, _, _, _, _)
FallbackLoop(s, paragraphs, k, chunks, current_chunk, curLo, curHi, chunk_index, id, number) ==
    IF k > Len(paragraphs)
    THEN IF current_chunk # <<>>
         THEN Append(chunks,
                     TextChunk(id, number, chunk_index, "Other",
                               extract_identifier(current_chunk, chunk_index),
                               Trim(current_chunk), curLo, curHi))
         ELSE chunks
    ELSE LET para == Span(s, paragraphs[k])
         IN  IF WordCount(current_chunk) + WordCount(para) > 500
             THEN IF current_chunk # <<>>
                  THEN FallbackLoop(s, paragraphs, k + 1,
                           Append(chunks,
                               TextChunk(id, number, chunk_index, "Other",
                                   extract_identifier(current_chunk, chunk_index),
                                   Trim(current_chunk), curLo, curHi)),
                           para, paragraphs[k].lo, paragraphs[k].hi,
                           chunk_index + 1, id, number)
                  ELSE FallbackLoop(s, paragraphs, k + 1, chunks,
                           para, paragraphs[k].lo, paragraphs[k].hi,
                           chunk_index, id, number)
             ELSE FallbackLoop(s, paragraphs, k + 1, chunks,
                      (IF current_chunk # <<>>
                       THEN current_chunk \o <<"NL", "NL">> ELSE <<>>) \o para,
                      (IF current_chunk # <<>> THEN curLo ELSE paragraphs[k].lo),
                      paragraphs[k].hi, chunk_index, id, number)

\* fallback_chunking without the filter on the paragraphs' length.
fallback_chunking_everyParagraph(s, id, number) ==
    FallbackLoop(s, SplitBlank(s), 1, <<>>, <<>>, 0, 0, 0, id, number)

fallback_chunking(s, id, number) ==
    LET paragraphs == SelectSeq(SplitBlank(s),
                                LAMBDA sp : StrLen(Trim(Span(s, sp))) > 100)
    IN  FallbackLoop(s, paragraphs, 1, <<>>, <<>>, 0, 0, 0, id, number)

\* SectionStep with the noise filter passing a section of 50 characters.
SectionStep_atLeast50(s, sections, idx, id, number) ==
    LET section == Span(s, sections[idx + 1])
        kind == identify_chunk_type(section)
    IN  IF StrLen(Trim(section)) >= 50
        THEN <<TextChunk(id, number, idx, kind.type, kind.identifier,
                         Trim(section),
                         sections[idx + 1].lo, sections[idx + 1].hi)>>
        ELSE <<>>

\* One round of the loop of chunk_text, for the section of index idx (from
\* 0): the chunk it pushes, if any.
SectionStep(s, sections, idx, id, number) ==
    LET section == Span(s, sections[idx + 1])
        kind == identify_chunk_type(section)
    IN  IF StrLen(Trim(section)) > 50
        THEN <<TextChunk(id, number, idx, kind.type, kind.identifier,
                         Trim(section),
                         sections[idx + 1].lo, sections[idx + 1].hi)>>
        ELSE <<>>

\* What the rounds lo..hi of the loop push, in order (taken by halves).
RECURSIVE SectionRange(_, _, _, _, _, _)
SectionRange(s, sections, lo, hi, id, number) ==
    IF lo > hi THEN <<>>
    ELSE IF lo = hi THEN SectionStep(s, sections, lo, id, number)
    ELSE SectionRange(s, sections, lo, (lo + hi) \div 2, id, number)
             \o SectionRange(s, sections, (lo + hi) \div 2 + 1, hi, id, number)

\* The loop of chunk_text over the enumerated sections idx.. (idx from 0),
\* with the chunks pushed before.
SectionLoop(s, sections, idx, chunks, id, number) ==
    chunks \o SectionRange(s, sections, idx, Len(sections) - 1, id, number)

\* chunk_text without the call of fallback_chunking.
chunk_text_noFallback(s, number, id) ==
    SectionLoop(s, split_into_sections(s), 0, <<>>, id, number)

\* chunk_text with the value id drawn by Uuid::new_v4().
chunk_text(s, number, id) ==
    LET sections == split_into_sections(s)
        chunks == SectionLoop(s, sections, 0, <<>>, id, number)
    IN  IF chunks = <<>> THEN fallback_chunking(s, id, number) ELSE chunks

----------------------------------------------------------------------------
(* The segmenter called twice on one input *)

RECURSIVE SeqsUpTo(_, _)
SeqsUpTo(S, n) ==
    IF n = 0 THEN {<<>>}
    ELSE LET shorter == SeqsUpTo(S, n - 1)
         IN  shorter \cup {Append(q, t) : q \in {r \in shorter : Len(r) = n - 1}, t \in S}

\* Paragraphs of 300, 200, 201 and 600 words, and one of 60 characters.
ParaKinds == {<<"P300">>, <<"P200">>, <<"P200", "SP", "X5">>,
              <<"P300", "SP", "P300">>, <<"X60">>}

\* Texts of blank-line paragraphs followed by one marker, which makes a
\* single section below the noise floor.
RECURSIVE ParaTexts(_)
ParaTexts(n) ==
    IF n = 0 THEN {<<"D1">>}
    ELSE LET shorter == ParaTexts(n - 1)
         IN  shorter \cup {para \o <<"NL", "NL">> \o t :
                            para \in ParaKinds,
                            t \in {r \in shorter : Len(SplitBlank(r)) = n}}

Texts == SeqsUpTo(FullTokens, MaxLenFull) \cup SeqsUpTo(CoreTokens, MaxLenCore)
         \cup SeqsUpTo(ParaTokens, MaxLenPara) \cup SeqsUpTo(EdgeTokens, MaxLenEdge)
         \cup ParaTexts(MaxParas)

\* Values Uuid::new_v4() may return.
Uuids == {"uuid-a", "uuid-b"}

BillNumbers == {"Bill No. 12 of 2024"}

FirstCall ==
    /\ cpc = "start"
    /\ \E id \in Uuids : chunks1' = chunk_text(text, bill_number, id)
    /\ cpc' = "once"
    /\ UNCHANGED <<text, bill_number, chunks2>>
    /\ UNCHANGED <<cacheVars, embedVars, poolVars, storeVars, searchVars, modVars, rateVars, voteVars>>

SecondCall ==
    /\ cpc = "once"
    /\ \E id \in Uuids : chunks2' = chunk_text(text, bill_number, id)
    /\ cpc' = "twice"
    /\ UNCHANGED <<text, bill_number, chunks1>>
    /\ UNCHANGED <<cacheVars, embedVars, poolVars, storeVars, searchVars, modVars, rateVars, voteVars>>

ChunkNext == FirstCall \/ SecondCall

----------------------------------------------------------------------------
(* embedder.rs: the encoder cache *)

Callers == 1..NumCallers

Constructing == {c \in Callers : pc[c] = "construct"}

\* embed_chunks or embed_query is called and reaches
\* EMBEDDING_MODEL.lock().await in get_or_init_model.
Call(c) ==
    /\ pc[c] = "idle"
    /\ calls[c] < MaxCalls
    /\ calls' = [calls EXCEPT ![c] = @ + 1]
    /\ pc' = [pc EXCEPT ![c] = "lock"]
    /\ result' = [result EXCEPT ![c] = "none"]
    /\ got' = [got EXCEPT ![c] = 0]
    /\ ownAttempt' = [ownAttempt EXCEPT ![c] = "none"]
    /\ waited' = [waited EXCEPT ![c] = Constructing # {}]
    /\ waitedFail' = [waitedFail EXCEPT ![c] = FALSE]
    /\ UNCHANGED <<lockOwner, cache, attempts, successes>>
    /\ UNCHANGED <<chunkVars, embedVars, poolVars, storeVars, searchVars, modVars, rateVars, voteVars>>

\* Lock without mutual exclusion: the guard is handed out while it is held.
Lock_noExclusion(c) ==
    /\ pc[c] = "lock"
    /\ lockOwner' = c
    /\ pc' = [pc EXCEPT ![c] = "check"]
    /\ UNCHANGED <<cache, attempts, successes, result, got, calls, waited,
                   waitedFail, ownAttempt>>
    /\ UNCHANGED <<chunkVars, embedVars, poolVars, storeVars, searchVars, modVars, rateVars, voteVars>>

\* lock().await returns the guard: the mutex is free.
Lock(c) ==
    /\ pc[c] = "lock"
    /\ lockOwner = 0
    /\ lockOwner' = c
    /\ pc' = [pc EXCEPT ![c] = "check"]
    /\ UNCHANGED <<cache, attempts, successes, result, got, calls, waited,
                   waitedFail, ownAttempt>>
    /\ UNCHANGED <<chunkVars, embedVars, poolVars, storeVars, searchVars, modVars, rateVars, voteVars>>

\* model_guard.is_none(): the construction is spawned and awaited with the
\* guard held.
StartConstruct(c) ==
    /\ pc[c] = "check"
    /\ cache = 0
    /\ attempts' = attempts + 1
    /\ pc' = [pc EXCEPT ![c] = "construct"]
    /\ waited' = [d \in Callers |-> waited[d] \/ (d # c /\ pc[d] = "lock")]
    /\ UNCHANGED <<lockOwner, cache, successes, result, got, calls,
                   waitedFail, ownAttempt>>
    /\ UNCHANGED <<chunkVars, embedVars, poolVars, storeVars, searchVars, modVars, rateVars, voteVars>>

\* The construction returns Ok: *model_guard = Some(model_data).
ConstructOk(c) ==
    /\ pc[c] = "construct"
    /\ cache' = attempts
    /\ successes' = successes + 1
    /\ ownAttempt' = [ownAttempt EXCEPT ![c] = "ok"]
    /\ pc' = [pc EXCEPT ![c] = "drop"]
    /\ UNCHANGED <<lockOwner, attempts, result, got, calls, waited, waitedFail>>
    /\ UNCHANGED <<chunkVars, embedVars, poolVars, storeVars, searchVars, modVars, rateVars, voteVars>>

\* ConstructErr with the error swallowed: the caller goes on as after Ok.
ConstructErr_swallowed(c) ==
    /\ pc[c] = "construct"
    /\ ownAttempt' = [ownAttempt EXCEPT ![c] = "fail"]
    /\ pc' = [pc EXCEPT ![c] = "drop"]
    /\ waitedFail' = [d \in Callers |-> waitedFail[d] \/ (d # c /\ pc[d] = "lock")]
    /\ UNCHANGED <<lockOwner, cache, attempts, successes, result, got, calls, waited>>
    /\ UNCHANGED <<chunkVars, embedVars, poolVars, storeVars, searchVars, modVars, rateVars, voteVars>>

\* ConstructErr with the unfinished model left in the cache.
ConstructErr_partial(c) ==
    /\ pc[c] = "construct"
    /\ lockOwner' = 0
    /\ cache' = attempts
    /\ ownAttempt' = [ownAttempt EXCEPT ![c] = "fail"]
    /\ result' = [result EXCEPT ![c] = "err"]
    /\ pc' = [pc EXCEPT ![c] = "idle"]
    /\ waitedFail' = [d \in Callers |-> waitedFail[d] \/ (d # c /\ pc[d] = "lock")]
    /\ UNCHANGED <<attempts, successes, got, calls, waited>>
    /\ UNCHANGED <<chunkVars, embedVars, poolVars, storeVars, searchVars, modVars, rateVars, voteVars>>

\* ConstructErr with the guard left locked when the error is returned.
ConstructErr_keepGuard(c) ==
    /\ pc[c] = "construct"
    /\ ownAttempt' = [ownAttempt EXCEPT ![c] = "fail"]
    /\ result' = [result EXCEPT ![c] = "err"]
    /\ pc' = [pc EXCEPT ![c] = "idle"]
    /\ waitedFail' = [d \in Callers |-> waitedFail[d] \/ (d # c /\ pc[d] = "lock")]
    /\ UNCHANGED <<lockOwner, cache, attempts, successes, got, calls, waited>>
    /\ UNCHANGED <<chunkVars, embedVars, poolVars, storeVars, searchVars, modVars, rateVars, voteVars>>

\* The construction fails: `.await??` returns the error from
\* get_or_init_model and from the caller, and the guard is dropped.
ConstructErr(c) ==
    /\ pc[c] = "construct"
    /\ lockOwner' = 0
    /\ ownAttempt' = [ownAttempt EXCEPT ![c] = "fail"]
    /\ result' = [result EXCEPT ![c] = "err"]
    /\ pc' = [pc EXCEPT ![c] = "idle"]
    /\ waitedFail' = [d \in Callers |-> waitedFail[d] \/ (d # c /\ pc[d] = "lock")]
    /\ UNCHANGED <<cache, attempts, successes, got, calls, waited>>
    /\ UNCHANGED <<chunkVars, embedVars, poolVars, storeVars, searchVars, modVars, rateVars, voteVars>>

\* The model is cached already: the body of the `if` is skipped.
SkipConstruct(c) ==
    /\ pc[c] = "check"
    /\ cache # 0
    /\ pc' = [pc EXCEPT ![c] = "drop"]
    /\ UNCHANGED <<lockOwner, cache, attempts, successes, result, got, calls,
                   waited, waitedFail, ownAttempt>>
    /\ UNCHANGED <<chunkVars, embedVars, poolVars, storeVars, searchVars, modVars, rateVars, voteVars>>

\* drop(model_guard); Ok(EMBEDDING_MODEL.clone()); the caller spawns its
\* blocking worker, which reaches blocking_lock().
DropGuard(c) ==
    /\ pc[c] = "drop"
    /\ lockOwner' = 0
    /\ result' = [result EXCEPT ![c] = "ok"]
    /\ pc' = [pc EXCEPT ![c] = "worker"]
    /\ UNCHANGED <<cache, attempts, successes, got, calls, waited, waitedFail,
                   ownAttempt>>
    /\ UNCHANGED <<chunkVars, embedVars, poolVars, storeVars, searchVars, modVars, rateVars, voteVars>>

\* blocking_lock() returns the guard and model_guard.as_ref().unwrap() is
\* evaluated: a panic when the cache is None.
WorkerLock(c) ==
    /\ pc[c] = "worker"
    /\ lockOwner = 0
    /\ lockOwner' = c
    /\ got' = [got EXCEPT ![c] = IF cache = 0 THEN -1 ELSE cache]
    /\ pc' = [pc EXCEPT ![c] = "encode"]
    /\ UNCHANGED <<cache, attempts, successes, result, calls, waited,
                   waitedFail, ownAttempt>>
    /\ UNCHANGED <<chunkVars, embedVars, poolVars, storeVars, searchVars, modVars, rateVars, voteVars>>

\* The worker encodes and ends: its guard is dropped and the call returns.
WorkerDone(c) ==
    /\ pc[c] = "encode"
    /\ lockOwner' = 0
    /\ pc' = [pc EXCEPT ![c] = "idle"]
    /\ UNCHANGED <<cache, attempts, successes, result, got, calls, waited,
                   waitedFail, ownAttempt>>
    /\ UNCHANGED <<chunkVars, embedVars, poolVars, storeVars, searchVars, modVars, rateVars, voteVars>>

CacheNext ==
    \E c \in Callers :
        \/ Call(c)
        \/ Lock(c)
        \/ StartConstruct(c)
        \/ ConstructOk(c)
        \/ ConstructErr(c)
        \/ SkipConstruct(c)
        \/ DropGuard(c)
        \/ WorkerLock(c)
        \/ WorkerDone(c)

\* The calls made so far by the callers 1..c.
RECURSIVE CallsOf(_)
CallsOf(c) == IF c = 0 THEN 0 ELSE calls[c] + CallsOf(c - 1)

\* The steps of the callers while they make MaxTotalCalls calls at most.
FairNext ==
    \E c \in Callers :
        \/ Call(c) /\ CallsOf(NumCallers) < MaxTotalCalls
        \/ Lock(c)
        \/ StartConstruct(c)
        \/ ConstructOk(c)
        \/ ConstructErr(c)
        \/ SkipConstruct(c)
        \/ DropGuard(c)
        \/ WorkerLock(c)
        \/ WorkerDone(c)

\* The scheduling of the callers.  The tokio Mutex hands the guard to its
\* waiters in the order of their arrival, at lock().await and at
\* blocking_lock() alike, so a waiter for whom the guard is free again and
\* again gets it; a task or worker thread that can run does run; a started
\* construction and a started encoding come to an end.  Nothing makes a
\* caller call.  (A caller stands at one place at a time, so one condition
\* for its lock requests and one for its other steps say as much as one
\* condition for each step.)
CacheFairness ==
    \A c \in Callers :
        /\ SF_vars(Lock(c) \/ WorkerLock(c))
        /\ WF_vars(StartConstruct(c) \/ ConstructOk(c) \/ ConstructErr(c)
                     \/ SkipConstruct(c) \/ DropGuard(c) \/ WorkerDone(c))

----------------------------------------------------------------------------
(* embedder.rs: embed_chunks *)

BATCH_SIZE == 8

\* tokenizer.encode fails on a text that holds the token "BAD".
Tokenizable(t) == \A i \in 1..Len(t) : t[i] # "BAD"

\* The pooled and normalised vector the model yields for a text.
Embedding(t) == [vector_of |-> t]

\* encode_batch: one vector per text, in the order of the texts, or the
\* error of the first text that cannot be tokenized.
encode_batch(batch) ==
    IF \A i \in 1..Len(batch) : Tokenizable(batch[i])
    THEN [ok |-> TRUE, vectors |-> [i \in 1..Len(batch) |-> Embedding(batch[i])]]
    ELSE [ok |-> FALSE, vectors |-> <<>>]

\* format!("{}\n{}", chunk.chunk_identifier, chunk.content)
TextOf(chunk) == chunk.chunk_identifier \o <<"NL">> \o chunk.content

EmbeddedChunk(chunk, embedding) == [chunk |-> chunk, embedding |-> embedding]

Min(a, b) == IF a < b THEN a ELSE b

\* chunks.iter().zip(embeddings.iter())
Zip(chunks, embeddings) ==
    [i \in 1..Min(Len(chunks), Len(embeddings)) |->
        EmbeddedChunk(chunks[i], embeddings[i])]

\* The chunks of a three-section bill, as the segmenter cuts them.
SampleChunks ==
    chunk_text(<<"D1", "X60", "NL", "D2", "X60", "NL", "CH", "X60">>,
               "Bill No. 12 of 2024", "uuid-a")

\* A list of n chunks that walks through the sample chunks from a in steps of
\* b; the chunk at position bad (if any) has a body that cannot be tokenized.
ChunkList(n, a, b, bad) ==
    [i \in 1..n |->
        LET c == SampleChunks[((a + b * (i - 1)) % Len(SampleChunks)) + 1]
        IN  [c EXCEPT !.chunk_index = i - 1,
                      !.content = IF i = bad THEN <<"BAD">> ELSE @]]

EmbedInputs ==
    {ChunkList(n, a, b, bad) :
        n \in 0..MaxChunks, a \in 0..(Len(SampleChunks) - 1),
        b \in 0..(Len(SampleChunks) - 1), bad \in 0..MaxChunks}

\* The texts are prepared and the worker starts with no embeddings.
PrepareTexts ==
    /\ epc = "start"
    /\ texts' = [i \in 1..Len(in_chunks) |-> TextOf(in_chunks[i])]
    /\ all_embeddings' = <<>>
    /\ pos' = 0
    /\ epc' = "encoding"
    /\ UNCHANGED <<in_chunks, embedded>>
    /\ UNCHANGED <<chunkVars, cacheVars, poolVars, storeVars, searchVars, modVars, rateVars, voteVars>>

\* EncodeNext with the vectors of a batch put in front of the earlier ones.
EncodeNext_prepend ==
    /\ epc = "encoding"
    /\ pos < Len(texts)
    /\ LET batch == SubSeq(texts, pos + 1, Min(pos + BATCH_SIZE, Len(texts)))
           batch_embeddings == encode_batch(batch)
       IN  IF batch_embeddings.ok
           THEN /\ all_embeddings' = batch_embeddings.vectors \o all_embeddings
                /\ pos' = pos + Len(batch)
                /\ UNCHANGED epc
           ELSE /\ epc' = "failed"
                /\ UNCHANGED <<all_embeddings, pos>>
    /\ UNCHANGED <<in_chunks, texts, embedded>>
    /\ UNCHANGED <<chunkVars, cacheVars, poolVars, storeVars, searchVars, modVars, rateVars, voteVars>>

\* EncodeNext with a batch that cannot be tokenized left out of the result.
EncodeNext_skipFailed ==
    /\ epc = "encoding"
    /\ pos < Len(texts)
    /\ LET batch == SubSeq(texts, pos + 1, Min(pos + BATCH_SIZE, Len(texts)))
           batch_embeddings == encode_batch(batch)
       IN  /\ all_embeddings' = all_embeddings \o batch_embeddings.vectors
           /\ pos' = pos + Len(batch)
           /\ UNCHANGED epc
    /\ UNCHANGED <<in_chunks, texts, embedded>>
    /\ UNCHANGED <<chunkVars, cacheVars, poolVars, storeVars, searchVars, modVars, rateVars, voteVars>>

\* One round of the loop over texts.chunks(BATCH_SIZE): the next batch is
\* encoded and its vectors are appended; an error ends the call.
EncodeNext ==
    /\ epc = "encoding"
    /\ pos < Len(texts)
    /\ LET batch == SubSeq(texts, pos + 1, Min(pos + BATCH_SIZE, Len(texts)))
           batch_embeddings == encode_batch(batch)
       IN  IF batch_embeddings.ok
           THEN /\ all_embeddings' = all_embeddings \o batch_embeddings.vectors
                /\ pos' = pos + Len(batch)
                /\ UNCHANGED epc
           ELSE /\ epc' = "failed"
                /\ UNCHANGED <<all_embeddings, pos>>
    /\ UNCHANGED <<in_chunks, texts, embedded>>
    /\ UNCHANGED <<chunkVars, cacheVars, poolVars, storeVars, searchVars, modVars, rateVars, voteVars>>

\* The loop is over: the chunks are combined with their embeddings.
Combine ==
    /\ epc = "encoding"
    /\ pos >= Len(texts)
    /\ embedded' = Zip(in_chunks, all_embeddings)
    /\ epc' = "done"
    /\ UNCHANGED <<in_chunks, texts, all_embeddings, pos>>
    /\ UNCHANGED <<chunkVars, cacheVars, poolVars, storeVars, searchVars, modVars, rateVars, voteVars>>

EmbedNext == PrepareTexts \/ EncodeNext \/ Combine

----------------------------------------------------------------------------
(* embedder.rs: encode_batch, from the tokenizer's output to the pooled vector *)

\* What tokenizer.encode returns for a text of n tokens that the tokenizer
\* itself padded with t entries: the ids and the attention mask.
Encoding(n, t) ==
    [ids |-> [p \in 1..(n + t) |-> IF p <= n THEN 100 + p ELSE 0],
     attention_mask |-> [p \in 1..(n + t) |-> IF p <= n THEN 1 ELSE 0]]

Encodings == {Encoding(n, t) : n \in 1..MaxTokens, t \in 0..1}

Batches == SeqsUpTo(Encodings, MaxBatch) \ {<<>>}

RECURSIVE MaxOf(_)
MaxOf(S) ==
    IF S = {} THEN 0
    ELSE LET x == CHOOSE y \in S : TRUE
             m == MaxOf(S \ {x})
         IN  IF x > m THEN x ELSE m

\* Vec::resize(new_len, value)
Resize(v, new_len, value) ==
    [p \in 1..new_len |-> IF p <= Len(v) THEN v[p] ELSE value]

\* BertModel::forward on the padded rows: one hidden state (one component of
\* it) per row and position, padded positions included; it depends on the
\* ids, the second tensor, the model's weights and the padded length.
Forward(ids, second, w) ==
    [i \in 1..Len(ids) |->
        [p \in 1..Len(ids[i]) |->
            w * (ids[i][p] + p) + second[i][p] + Len(ids[i])]]

RECURSIVE SumSeq(_)
SumSeq(v) == IF v = <<>> THEN 0 ELSE v[1] + SumSeq(Tail(v))

\* mean_pool with the number of positions of the row as the divisor.
mean_pool_overLength(seq_embeddings, mask) ==
    [sum |-> SumSeq([p \in 1..Len(mask) |-> seq_embeddings[p] * mask[p]]),
     divisor |-> Len(mask)]

\* Masked mean pooling of one row: the hidden states times the mask, summed
\* over the positions, to be divided by the sum of the mask.
mean_pool(seq_embeddings, mask) ==
    [sum |-> SumSeq([p \in 1..Len(mask) |-> seq_embeddings[p] * mask[p]]),
     divisor |-> SumSeq(mask)]

\* The rows are padded to the longest and run through the model.
PadAndForward ==
    /\ ppc = "start"
    /\ LET max_len == MaxOf({Len(encodings[i].ids) : i \in 1..Len(encodings)})
           ids == [i \in 1..Len(encodings) |->
                      Resize(encodings[i].ids, max_len, 0)]
           masks == [i \in 1..Len(encodings) |->
                        Resize(encodings[i].attention_mask, max_len, 0)]
       IN  /\ token_ids_padded' = ids
           /\ attention_masks_padded' = masks
           /\ hidden' = Forward(ids, masks, weights)
    /\ ppc' = "forward"
    /\ UNCHANGED <<encodings, weights, pooled>>
    /\ UNCHANGED <<chunkVars, cacheVars, embedVars, storeVars, searchVars, modVars, rateVars, voteVars>>

\* The loop over the rows of the batch: each row is mean pooled.
Pool ==
    /\ ppc = "forward"
    /\ pooled' = [i \in 1..Len(hidden) |->
                     mean_pool(hidden[i], attention_masks_padded[i])]
    /\ ppc' = "done"
    /\ UNCHANGED <<encodings, weights, token_ids_padded,
                   attention_masks_padded, hidden>>
    /\ UNCHANGED <<chunkVars, cacheVars, embedVars, storeVars, searchVars, modVars, rateVars, voteVars>>

PoolNext == PadAndForward \/ Pool

----------------------------------------------------------------------------
(* vector_store.rs: initialize_collection and store_chunks, and the Init and
   Ingest commands of main.rs that call them *)

UPSERT_BATCH_SIZE == 100

\* How a request to the store can end: a success status, another status, or
\* no response at all (send() fails).
Replies == {"ok", "bad_status", "conn_err"}

NoError == [context |-> "", detail |-> ""]

Ok(command) == [command |-> command, ok |-> TRUE, error |-> NoError]

\* The anyhow error of a request: .context(..) on a failed send, bail!(..)
\* with the text of the response on a status that is not a success.
RequestError(context, reply) ==
    [context |-> context,
     detail |-> IF reply = "conn_err" THEN "error sending request"
                ELSE "error_text"]

Err(command, context, reply) ==
    [command |-> command, ok |-> FALSE, error |-> RequestError(context, reply)]

TheBill ==
    [id |-> "bill-uuid", title |-> "The Sample Bill, 2024",
     bill_number |-> "Bill No. 12 of 2024", year |-> 2024]

\* The text of a bill of n clauses, each long enough to become a chunk.
Doc(n) ==
    [p \in 1..(3 * n) |->
        IF p % 3 = 1 THEN "D1" ELSE IF p % 3 = 2 THEN "X60" ELSE "NL"]

\* The bills have no, one or two full batches of chunks and a rest.
DocSizes ==
    {UPSERT_BATCH_SIZE * k + r : k \in {0, 1, 2}, r \in 0..MaxRest}

\* The worker loop of embed_chunks as a function of the texts.
RECURSIVE EmbedLoop(_, _, _)
EmbedLoop(txts, done, acc) ==
    IF done >= Len(txts) THEN [ok |-> TRUE, vectors |-> acc]
    ELSE LET batch == SubSeq(txts, done + 1, Min(done + BATCH_SIZE, Len(txts)))
             batch_embeddings == encode_batch(batch)
         IN  IF batch_embeddings.ok
             THEN EmbedLoop(txts, done + Len(batch),
                            acc \o batch_embeddings.vectors)
             ELSE [ok |-> FALSE, vectors |-> <<>>]

\* embed_chunks once the model is acquired.
embed_chunks(chunks) ==
    LET r == EmbedLoop([i \in 1..Len(chunks) |-> TextOf(chunks[i])], 0, <<>>)
    IN  [ok |-> r.ok,
         embedded |-> IF r.ok THEN Zip(chunks, r.vectors) ELSE <<>>]

\* Per bill size: the text, and what chunk_text and embed_chunks make of it.
Ingested ==
    [n \in DocSizes |->
        [text |-> Doc(n),
         result |-> embed_chunks(chunk_text(Doc(n), TheBill.bill_number, "uuid-a"))]]

\* Uuid::new_v4() for the i-th point of a call, k ids having been drawn before
\* with every id drawn twice.
new_v4_repeating(k, i) == i

\* Uuid::new_v4() for the i-th point of a call, k ids having been drawn
\* before: a value that was not drawn before.
new_v4(k, i) == k + i

\* Point with the number of the bill written as its title.
Point_numberAsTitle(point_id, bill, chunk) ==
    [id |-> point_id,
     vector |-> chunk.embedding,
     payload |-> [bill_id |-> bill.id,
                  bill_title |-> bill.bill_number,
                  bill_number |-> bill.bill_number,
                  year |-> bill.year,
                  chunk_index |-> chunk.chunk.chunk_index,
                  chunk_type |-> chunk.chunk.chunk_type,
                  chunk_identifier |-> chunk.chunk.chunk_identifier,
                  content |-> chunk.chunk.content]]

\* The json of one point.
Point(point_id, bill, chunk) ==
    [id |-> point_id,
     vector |-> chunk.embedding,
     payload |-> [bill_id |-> bill.id,
                  bill_title |-> bill.title,
                  bill_number |-> bill.bill_number,
                  year |-> bill.year,
                  chunk_index |-> chunk.chunk.chunk_index,
                  chunk_type |-> chunk.chunk.chunk_type,
                  chunk_identifier |-> chunk.chunk.chunk_identifier,
                  content |-> chunk.chunk.content]]

\* The number of slices with the last, partial slice left out.
NumBatches_exact(n) == n \div UPSERT_BATCH_SIZE

\* The number of slices with an empty list sliced into one empty slice.
NumBatches_atLeastOne(n) ==
    IF n = 0 THEN 1 ELSE (n + UPSERT_BATCH_SIZE - 1) \div UPSERT_BATCH_SIZE

\* The number of slices points.chunks(BATCH_SIZE) yields for n points.
NumBatches(n) == (n + UPSERT_BATCH_SIZE - 1) \div UPSERT_BATCH_SIZE

\* The k-th slice of points.chunks(BATCH_SIZE), k from 1.
BatchAt(pts, k) ==
    SubSeq(pts, (k - 1) * UPSERT_BATCH_SIZE + 1,
           Min(k * UPSERT_BATCH_SIZE, Len(pts)))

\* The store's upsert: a point replaces the stored point of the same id.
Upserted(stored_points, batch) ==
    {q \in stored_points : \A i \in 1..Len(batch) : q.id # batch[i].id}
        \cup {batch[i] : i \in 1..Len(batch)}

\* The error store_chunks returns when its k-th request fails.
UpsertError(k, reply) == RequestError("Failed to upsert points", reply)

\* Commands::Init, up to the response to GET /collections. A failed send
\* ends the call; a response without the list counts as "no such collection".
InitList ==
    /\ spc = "idle"
    /\ cmds < MaxCmds
    /\ cmds' = cmds + 1
    /\ clean' = FALSE
    /\ \E reply \in Replies :
         IF reply = "conn_err"
         THEN /\ outcome' = Err("init", "Failed to list collections", reply)
              /\ UNCHANGED <<spc, collection_exists>>
         ELSE /\ collection_exists' = (reply = "ok" /\ collection.exists)
              /\ spc' = IF collection_exists' THEN "delete" ELSE "create"
              /\ outcome' = [command |-> "init", ok |-> FALSE, error |-> NoError]
    /\ UNCHANGED <<collection, uuids, ingest_text, points, sent, stored>>
    /\ UNCHANGED <<chunkVars, cacheVars, embedVars, poolVars, searchVars, modVars, rateVars, voteVars>>

\* DELETE /collections/{name}: only a failed send ends the call, the status
\* of the response is not looked at.
InitDelete ==
    /\ spc = "delete"
    /\ \E reply \in Replies :
         /\ collection' = IF reply = "ok" THEN [exists |-> FALSE, points |-> {}]
                          ELSE collection
         /\ IF reply = "conn_err"
            THEN /\ outcome' = Err("init", "Failed to delete collection", reply)
                 /\ spc' = "idle"
            ELSE /\ spc' = "create"
                 /\ UNCHANGED outcome
    /\ UNCHANGED <<uuids, collection_exists, ingest_text, points, sent, cmds,
                   stored, clean>>
    /\ UNCHANGED <<chunkVars, cacheVars, embedVars, poolVars, searchVars, modVars, rateVars, voteVars>>

\* InitCreate with the status of the response not looked at.
InitCreate_unchecked ==
    /\ spc = "create"
    /\ \E reply \in Replies :
         /\ reply = "ok" => ~collection.exists
         /\ collection' = IF reply = "ok" THEN [exists |-> TRUE, points |-> {}]
                          ELSE collection
         /\ IF reply # "conn_err"
            THEN /\ outcome' = Ok("init")
                 /\ stored' = 0
                 /\ clean' = TRUE
            ELSE /\ outcome' = Err("init", "Failed to create collection", reply)
                 /\ UNCHANGED <<stored, clean>>
    /\ spc' = "idle"
    /\ UNCHANGED <<uuids, collection_exists, ingest_text, points, sent, cmds>>
    /\ UNCHANGED <<chunkVars, cacheVars, embedVars, poolVars, searchVars, modVars, rateVars, voteVars>>

\* PUT /collections/{name}: the store creates the collection, empty, unless
\* one of that name exists; any outcome but a success status is an error.
InitCreate ==
    /\ spc = "create"
    /\ \E reply \in Replies :
         /\ reply = "ok" => ~collection.exists
         /\ collection' = IF reply = "ok" THEN [exists |-> TRUE, points |-> {}]
                          ELSE collection
         /\ IF reply = "ok"
            THEN /\ outcome' = Ok("init")
                 /\ stored' = 0
                 /\ clean' = TRUE
            ELSE /\ outcome' = Err("init", "Failed to create collection", reply)
                 /\ UNCHANGED <<stored, clean>>
    /\ spc' = "idle"
    /\ UNCHANGED <<uuids, collection_exists, ingest_text, points, sent, cmds>>
    /\ UNCHANGED <<chunkVars, cacheVars, embedVars, poolVars, searchVars, modVars, rateVars, voteVars>>

\* Commands::Ingest for one bill, up to the first upsert request: the text is
\* chunked and embedded and store_chunks builds one point per chunk. The
\* call of embed_chunks can fail (no model, or a text that is not tokenized).
Ingest ==
    /\ spc = "idle"
    /\ cmds < MaxCmds
    /\ cmds' = cmds + 1
    /\ \E n \in DocSizes :
         /\ ingest_text' = Ingested[n].text
         /\ \/ /\ Ingested[n].result.ok
               /\ points' = [i \in 1..Len(Ingested[n].result.embedded) |->
                                Point(new_v4(uuids, i), TheBill,
                                      Ingested[n].result.embedded[i])]
               /\ uuids' = uuids + Len(Ingested[n].result.embedded)
               /\ spc' = "upsert"
               /\ outcome' = [command |-> "ingest", ok |-> FALSE, error |-> NoError]
            \/ /\ points' = <<>>
               /\ outcome' = Err("ingest", "Failed to spawn blocking task", "conn_err")
               /\ UNCHANGED <<uuids, spc>>
    /\ sent' = <<>>
    /\ UNCHANGED <<collection, collection_exists, stored, clean>>
    /\ UNCHANGED <<chunkVars, cacheVars, embedVars, poolVars, searchVars, modVars, rateVars, voteVars>>

\* Upsert with a failed request passed over.
Upsert_continue ==
    /\ spc = "upsert"
    /\ Len(sent) < NumBatches(Len(points))
    /\ \E reply \in Replies :
         /\ reply = "ok" => collection.exists
         /\ LET batch == BatchAt(points, Len(sent) + 1)
            IN  /\ sent' = Append(sent, [points |-> batch, reply |-> reply])
                /\ collection' =
                     IF reply = "ok"
                     THEN [collection EXCEPT !.points = Upserted(@, batch)]
                     ELSE collection
         /\ clean' = (clean /\ reply = "ok")
         /\ UNCHANGED <<outcome, spc>>
    /\ UNCHANGED <<uuids, collection_exists, ingest_text, points, cmds, stored>>
    /\ UNCHANGED <<chunkVars, cacheVars, embedVars, poolVars, searchVars, modVars, rateVars, voteVars>>

\* One round of the loop over points.chunks(BATCH_SIZE): the next batch is
\* sent; a failed send or a status that is not a success ends store_chunks
\* (and the command) with an error.
Upsert ==
    /\ spc = "upsert"
    /\ Len(sent) < NumBatches(Len(points))
    /\ \E reply \in Replies :
         /\ reply = "ok" => collection.exists
         /\ LET batch == BatchAt(points, Len(sent) + 1)
            IN  /\ sent' = Append(sent, [points |-> batch, reply |-> reply])
                /\ collection' =
                     IF reply = "ok"
                     THEN [collection EXCEPT !.points = Upserted(@, batch)]
                     ELSE collection
         /\ IF reply = "ok"
            THEN UNCHANGED <<outcome, spc, clean>>
            ELSE /\ outcome' = [command |-> "ingest", ok |-> FALSE,
                              error |-> UpsertError(Len(sent) + 1, reply)]
                 /\ spc' = "idle"
                 /\ clean' = FALSE
    /\ UNCHANGED <<uuids, collection_exists, ingest_text, points, cmds, stored>>
    /\ UNCHANGED <<chunkVars, cacheVars, embedVars, poolVars, searchVars, modVars, rateVars, voteVars>>

\* The loop is over: store_chunks returns Ok.
StoreDone ==
    /\ spc = "upsert"
    /\ Len(sent) >= NumBatches(Len(points))
    /\ outcome' = Ok("ingest")
    /\ spc' = "idle"
    /\ stored' = stored + Len(points)
    /\ UNCHANGED <<collection, uuids, collection_exists, ingest_text, points,
                   sent, cmds, clean>>
    /\ UNCHANGED <<chunkVars, cacheVars, embedVars, poolVars, searchVars, modVars, rateVars, voteVars>>

StoreNext ==
    \/ InitList
    \/ InitDelete
    \/ InitCreate
    \/ Ingest
    \/ Upsert
    \/ StoreDone

----------------------------------------------------------------------------
(* vector_store.rs: search, and the Query command of main.rs *)

\* serde_json::Value, as far as points and hits hold it.
JString(s) == [kind |-> "string", value |-> s]
JNumber(n) == [kind |-> "number", value |-> <<n>>]
JNull == [kind |-> "null", value |-> <<>>]

\* Value::as_str and Value::as_f64: an Option, here a list of at most one.
as_str(j) == IF j.kind = "string" THEN <<j.value>> ELSE <<>>
as_f64(j) == IF j.kind = "number" THEN j.value ELSE <<>>

\* The payload object that json! builds in store_chunks.
PayloadJson(payload) ==
    [bill_id |-> JString(payload.bill_id),
     bill_title |-> JString(payload.bill_title),
     bill_number |-> JString(payload.bill_number),
     year |-> JNumber(payload.year),
     chunk_index |-> JNumber(payload.chunk_index),
     chunk_type |-> JString(payload.chunk_type),
     chunk_identifier |-> JString(payload.chunk_identifier),
     content |-> JString(payload.content)]

\* The cosine similarity the store computes, in hundredths: the largest for
\* vectors of equal texts, and for other texts what the encoder makes of them.
Digest(t) ==
    SumSeq([i \in 1..Len(t) |->
               i * (CASE t[i] = "D1" -> 1 [] t[i] = "D2" -> 2
                      [] t[i] = "CH" -> 3 [] OTHER -> 5)])

Similarity(enc, a, b) ==
    IF a = b THEN 100
    ELSE (enc * (Digest(a.vector_of) + 3 * Digest(b.vector_of))) % 100

\* The hits the store returns: the points in the order of descending score
\* (of ascending id among equal scores), the first n of them.
RECURSIVE TopHits(_, _, _, _)
TopHits(pts, enc, v, n) ==
    IF n = 0 \/ pts = {} THEN <<>>
    ELSE LET best == CHOOSE p \in pts : \A q \in pts :
                         \/ Similarity(enc, v, p.vector) > Similarity(enc, v, q.vector)
                         \/ /\ Similarity(enc, v, p.vector) = Similarity(enc, v, q.vector)
                            /\ p.id <= q.id
         IN  <<[id |-> best.id,
                score |-> JNumber(Similarity(enc, v, best.vector)),
                payload |-> PayloadJson(best.payload)]>>
                 \o TopHits(pts \ {best}, enc, v, n - 1)

SearchResult(bill_title, number, chunk_identifier, content, score) ==
    [bill_title |-> bill_title, bill_number |-> number,
     chunk_identifier |-> chunk_identifier, content |-> content,
     score |-> score]

\* The closure of filter_map: the SearchResult of a hit, or nothing when a
\* field is missing or of another type.
HitResult(item) ==
    IF /\ as_str(item.payload.bill_title) # <<>>
       /\ as_str(item.payload.bill_number) # <<>>
       /\ as_str(item.payload.chunk_identifier) # <<>>
       /\ as_str(item.payload.content) # <<>>
       /\ as_f64(item.score) # <<>>
    THEN <<SearchResult(as_str(item.payload.bill_title)[1],
                        as_str(item.payload.bill_number)[1],
                        as_str(item.payload.chunk_identifier)[1],
                        as_str(item.payload.content)[1],
                        as_f64(item.score)[1])>>
    ELSE <<>>

RECURSIVE FilterMap(_)
FilterMap(items) ==
    IF items = <<>> THEN <<>>
    ELSE HitResult(items[1]) \o FilterMap(Tail(items))

\* search_results with the hits taken from the last to the first.
search_results_reversed(body) ==
    LET r == FilterMap(IF body.has_result THEN body.result ELSE <<>>)
    IN  [i \in 1..Len(r) |-> r[Len(r) + 1 - i]]

\* search_result["result"].as_array().unwrap_or(&vec![]) .. collect()
search_results(body) ==
    FilterMap(IF body.has_result THEN body.result ELSE <<>>)

\* How the search request can end: as any request, or with a success status
\* and a body without the result array, or with a hit without its content.
SearchReplies == Replies \cup {"no_result", "bad_hit"}

\* The collections a query can meet: none, an empty one, and what store_chunks
\* made of the first or of all the chunks of the sample bill.
StoredSample(n) ==
    {Point(new_v4(0, i), TheBill, embed_chunks(SampleChunks).embedded[i]) :
        i \in 1..n}

SearchCollections ==
    {[exists |-> FALSE, points |-> {}]}
        \cup {[exists |-> TRUE, points |-> StoredSample(n)] :
                 n \in {0, 1, Len(SampleChunks)}}

\* The queries: the body of a sample chunk, the text embedded for it, or
\* another text.
Queries ==
    {SampleChunks[i].content : i \in 1..Len(SampleChunks)}
        \cup {TextOf(SampleChunks[i]) : i \in 1..Len(SampleChunks)}
        \cup {<<"X5">>}

\* Commands::Query up to the search: embed_query encodes the query text, or
\* fails.
QueryEmbed ==
    /\ qpc = "start"
    /\ \E q \in Queries, l \in 1..MaxLimit :
         /\ query' = q
         /\ limit' = l
         /\ \/ /\ encode_batch(<<q>>).ok
               /\ query_vector' = encode_batch(<<q>>).vectors[1]
               /\ qpc' = "search"
               /\ outcome' = [command |-> "query", ok |-> FALSE, error |-> NoError]
            \/ /\ query_vector' = query_vector
               /\ qpc' = "done"
               /\ outcome' = Err("query", "Failed to spawn blocking task", "conn_err")
    /\ UNCHANGED <<encoder, response, results>>
    /\ UNCHANGED <<collection, uuids, spc, collection_exists, ingest_text,
                   points, sent, cmds, stored, clean>>
    /\ UNCHANGED <<chunkVars, cacheVars, embedVars, poolVars, modVars, rateVars, voteVars>>

\* search: the request, and the SearchResults made of the response.
Search ==
    /\ qpc = "search"
    /\ \E reply \in SearchReplies :
         LET hits == TopHits(collection.points, encoder, query_vector, limit)
         IN  /\ reply \notin {"bad_status", "conn_err"} => collection.exists
             /\ reply = "bad_hit" => hits # <<>>
             /\ response' =
                  [kind |-> reply,
                   has_result |-> reply \in {"ok", "bad_hit"},
                   result |->
                       IF reply = "ok" THEN hits
                       ELSE IF reply = "bad_hit"
                            THEN [hits EXCEPT ![1].payload.content = JNull]
                            ELSE <<>>]
             /\ IF reply \in {"bad_status", "conn_err"}
                THEN /\ outcome' = Err("query", "Failed to search", reply)
                     /\ UNCHANGED results
                ELSE /\ outcome' = Ok("query")
                     /\ results' = search_results(response')
    /\ qpc' = "done"
    /\ UNCHANGED <<query, limit, encoder, query_vector>>
    /\ UNCHANGED <<collection, uuids, spc, collection_exists, ingest_text,
                   points, sent, cmds, stored, clean>>
    /\ UNCHANGED <<chunkVars, cacheVars, embedVars, poolVars, modVars, rateVars, voteVars>>

SearchNext == QueryEmbed \/ Search

----------------------------------------------------------------------------
(* moderation.rs: check_content and fallback_moderation.  Here a string is
   the sequence of its characters, "SP" and "NL" standing for " " and "\n". *)

UpperCase == <<"A", "B", "C", "D", "E", "F", "G", "H", "I", "J", "K", "L", "M",
              "N", "O", "P", "Q", "R", "S", "T", "U", "V", "W", "X", "Y", "Z">>

LowerCase == <<"a", "b", "c", "d", "e", "f", "g", "h", "i", "j", "k", "l", "m",
              "n", "o", "p", "q", "r", "s", "t", "u", "v", "w", "x", "y", "z">>

\* str::to_lowercase and str::to_uppercase on the letters A-Z, a-z.
to_lowercase(s) ==
    [i \in 1..Len(s) |->
        IF \E k \in 1..26 : UpperCase[k] = s[i]
        THEN LowerCase[CHOOSE k \in 1..26 : UpperCase[k] = s[i]]
        ELSE s[i]]

to_uppercase(s) ==
    [i \in 1..Len(s) |->
        IF \E k \in 1..26 : LowerCase[k] = s[i]
        THEN UpperCase[CHOOSE k \in 1..26 : LowerCase[k] = s[i]]
        ELSE s[i]]

\* str::contains(pattern): pattern is a substring of s.
contains(s, pattern) ==
    \E i \in 0..(Len(s) - Len(pattern)) :
        SubSeq(s, i + 1, i + Len(pattern)) = pattern

toxic_patterns ==
    <<<<"k", "i", "l", "l">>,
      <<"m", "u", "r", "d", "e", "r">>,
      <<"h", "a", "t", "e">>,
      <<"t", "e", "r", "r", "o", "r", "i", "s", "t">>,
      <<"b", "o", "m", "b">>,
      <<"d", "i", "e">>,
      <<"s", "t", "u", "p", "i", "d">>,
      <<"i", "d", "i", "o", "t">>,
      <<"m", "o", "r", "o", "n">>,
      <<"r", "a", "c", "i", "s", "t">>,
      <<"s", "e", "x", "i", "s", "t">>>>

spam_patterns ==
    <<<<"b", "u", "y", "SP", "n", "o", "w">>,
      <<"c", "l", "i", "c", "k", "SP", "h", "e", "r", "e">>,
      <<"f", "r", "e", "e", "SP", "m", "o", "n", "e", "y">>,
      <<"l", "o", "t", "t", "e", "r", "y">>,
      <<"c", "r", "y", "p", "t", "o">>,
      <<"b", "i", "t", "c", "o", "i", "n">>,
      <<"i", "n", "v", "e", "s", "t", "m", "e", "n", "t", "SP", "o", "p", "p", "o", "r", "t", "u", "n", "i", "t", "y">>>>

\* fallback_moderation with the spam patterns tried before the toxic ones.
fallback_moderation_spamFirst(c) ==
    LET content_lower == to_lowercase(c)
    IN  IF \E k \in 1..Len(spam_patterns) :
               contains(content_lower, spam_patterns[k])
        THEN "Popcorn"
        ELSE IF \E k \in 1..Len(toxic_patterns) :
                    contains(content_lower, toxic_patterns[k])
             THEN "AdminReview"
             ELSE "Falafel"

fallback_moderation(c) ==
    LET content_lower == to_lowercase(c)
    IN  IF \E k \in 1..Len(toxic_patterns) :
               contains(content_lower, toxic_patterns[k])
        THEN "AdminReview"
        ELSE IF \E k \in 1..Len(spam_patterns) :
                    contains(content_lower, spam_patterns[k])
             THEN "Popcorn"
             ELSE "Falafel"

Falafel == <<"F", "a", "l", "a", "f", "e", "l">>

Popcorn == <<"P", "o", "p", "c", "o", "r", "n">>

\* The match on the reply of the moderation model.
reply_result(ollama_response) ==
    LET response_text == to_uppercase(Trim(ollama_response))
    IN  IF contains(response_text, Falafel) THEN "Falafel"
        ELSE IF contains(response_text, Popcorn) THEN "Popcorn"
        ELSE "AdminReview"

\* ModerationResult::to_status
to_status(r) ==
    CASE r = "Falafel" -> "approved"
      [] r = "Popcorn" -> "rejected"
      [] r = "AdminReview" -> "pending_review"

\* Words of a post.
PostWords == {<<"K", "i", "l", "l">>,
              <<"a", "u", "d", "i", "e", "n", "c", "e">>,
              <<"B", "u", "y">>,
              <<"n", "o", "w">>,
              <<"L", "O", "T", "T", "E", "R", "Y">>,
              <<"g", "o", "o", "d">>}

\* Posts of up to n words with one space between them.
RECURSIVE Posts(_)
Posts(n) ==
    IF n = 0 THEN {<<>>}
    ELSE LET shorter == Posts(n - 1)
         IN  shorter \cup PostWords
               \cup {q \o <<"SP">> \o w :
                       q \in {r \in shorter : r # <<>>}, w \in PostWords}

\* Replies of the moderation model.
OllamaReplies == {<<"F", "a", "l", "a", "f", "e", "l">>,
                  <<"P", "o", "p", "c", "o", "r", "n">>,
                  <<"R", "E", "V", "I", "E", "W">>,
                  <<"SP", "F", "a", "l", "a", "f", "e", "l", "NL">>,
                  <<"p", "o", "p", "c", "o", "r", "n", ".">>,
                  <<"P", "o", "p", "c", "o", "r", "n", ",", "SP", "n", "o", "t", "SP", "F", "a", "l", "a", "f", "e", "l">>}

\* How the request to Ollama ends: a reply, an error status, a body that is
\* not an OllamaResponse, or no connection.
OllamaOutcomes ==
    {[kind |-> "ok", response |-> r] : r \in OllamaReplies}
      \cup {[kind |-> k, response |-> <<>>] :
              k \in {"bad_status", "bad_json", "conn_err"}}

\* check_content: the reply of the model is mapped to a result; without a
\* reply the keyword filter decides.
CheckContent ==
    /\ mpc = "start"
    /\ \E o \in OllamaOutcomes :
         /\ ollama' = o
         /\ moderation' = IF o.kind = "ok" THEN reply_result(o.response)
                          ELSE fallback_moderation(post)
    /\ mpc' = "checked"
    /\ UNCHANGED <<post, status>>
    /\ UNCHANGED <<chunkVars, cacheVars, embedVars, poolVars, storeVars, searchVars, rateVars, voteVars>>

\* submit_review_handler: the status of the post is that of the result.
ToStatus ==
    /\ mpc = "checked"
    /\ status' = to_status(moderation)
    /\ mpc' = "done"
    /\ UNCHANGED <<post, ollama, moderation>>
    /\ UNCHANGED <<chunkVars, cacheVars, embedVars, poolVars, storeVars, searchVars, rateVars, voteVars>>

ModNext == CheckContent \/ ToStatus

----------------------------------------------------------------------------
(* rate_limit.rs and submit_review_handler of web.rs: the submissions of one
   user, each a request handled by a task of its own.  The clock counts half
   hours. *)

MAX_POSTS_PER_HOUR == 5

\* Duration::hours(1)
HourTicks == 2

\* The requests of the user that can be in flight at once.
Submitters == 1..NumSubmitters

RECURSIVE RowsSince(_, _, _)
RowsSince(table, t, upto) ==
    IF t > upto THEN 0
    ELSE (IF t >= 0 THEN table[t] ELSE 0) + RowsSince(table, t + 1, upto)

\* SELECT COUNT(*) FROM rate_limits WHERE ... AND timestamp > one_hour_ago
\* (a row written at the very instant one hour back does not count), and
\* the test of the count.
can_create_post ==
    RowsSince(rate_limits, now - HourTicks + 1, now) < MAX_POSTS_PER_HOUR

\* The handler asks can_create_post: a failed query counts as a refusal
\* (unwrap_or(false)), and a refusal is answered with 429.
CheckRateLimit(h) ==
    /\ hpc[h] = "idle"
    /\ submissions < MaxSubmissions
    /\ submissions' = submissions + 1
    /\ \E db_ok \in BOOLEAN :
         IF db_ok /\ can_create_post
         THEN /\ hpc' = [hpc EXCEPT ![h] = "create"]
              /\ http' = [http EXCEPT ![h] = "none"]
         ELSE /\ hpc' = hpc
              /\ http' = [http EXCEPT ![h] = "429"]
    /\ UNCHANGED <<now, rate_limits, posts>>
    /\ UNCHANGED <<chunkVars, cacheVars, embedVars, poolVars, storeVars, searchVars, modVars, voteVars>>

\* After the moderation, create_post inserts the post with created_at
\* Utc::now(), whatever the moderation said; a failed insert is answered
\* with 500.
CreatePost(h) ==
    /\ hpc[h] = "create"
    /\ \E db_ok \in BOOLEAN :
         IF db_ok
         THEN /\ posts' = [posts EXCEPT ![now] = @ + 1]
              /\ hpc' = [hpc EXCEPT ![h] = "record"]
              /\ http' = http
         ELSE /\ posts' = posts
              /\ hpc' = [hpc EXCEPT ![h] = "idle"]
              /\ http' = [http EXCEPT ![h] = "500"]
    /\ UNCHANGED <<now, rate_limits, submissions>>
    /\ UNCHANGED <<chunkVars, cacheVars, embedVars, poolVars, storeVars, searchVars, modVars, voteVars>>

\* record_post_action inserts the row with timestamp Utc::now(); the handler
\* drops its result (let _ =) and answers with 200.
RecordPostAction(h) ==
    /\ hpc[h] = "record"
    /\ \E db_ok \in BOOLEAN :
         rate_limits' = IF db_ok THEN [rate_limits EXCEPT ![now] = @ + 1]
                        ELSE rate_limits
    /\ hpc' = [hpc EXCEPT ![h] = "idle"]
    /\ http' = [http EXCEPT ![h] = "200"]
    /\ UNCHANGED <<now, posts, submissions>>
    /\ UNCHANGED <<chunkVars, cacheVars, embedVars, poolVars, storeVars, searchVars, modVars, voteVars>>

\* Half an hour passes.
Tick ==
    /\ now < MaxTime
    /\ now' = now + 1
    /\ UNCHANGED <<rate_limits, posts, hpc, http, submissions>>
    /\ UNCHANGED <<chunkVars, cacheVars, embedVars, poolVars, storeVars, searchVars, modVars, voteVars>>

RateNext ==
    \/ \E h \in Submitters :
         \/ CheckRateLimit(h)
         \/ CreatePost(h)
         \/ RecordPostAction(h)
    \/ Tick

----------------------------------------------------------------------------
(* db.rs: upvote_post and downvote_post on one post.  Each call runs four
   statements on the pool, one after the other, outside any transaction. *)

Voters == 1..NumVoters

\* The calls that can be in flight at once.
VoteCalls == 1..NumVoteCalls

Other(vote) == IF vote = "upvote" THEN "downvote" ELSE "upvote"

RowsOf(u) == post_votes[u].upvote + post_votes[u].downvote

\* SELECT vote_type FROM post_votes WHERE post_id = $1 AND user_id = $2 with
\* fetch_optional: the vote_type of a row of the user, None without one.
Existing(u) ==
    IF RowsOf(u) = 0 THEN {"none"}
    ELSE {t \in {"upvote", "downvote"} : post_votes[u][t] > 0}

\* The call starts and runs its SELECT.
SelectExisting(v) ==
    /\ vpc[v] = "idle"
    /\ votes_started < MaxVoteCalls
    /\ votes_started' = votes_started + 1
    /\ \E u \in Voters, vote \in {"upvote", "downvote"} : \E e \in Existing(u) :
         vcall' = [vcall EXCEPT ![v] = [user |-> u, vote |-> vote, existing |-> e]]
    /\ vpc' = [vpc EXCEPT ![v] = "vote"]
    /\ vret' = [vret EXCEPT ![v] = "none"]
    /\ UNCHANGED <<unique_votes, post_votes, upvotes, downvotes>>
    /\ UNCHANGED <<chunkVars, cacheVars, embedVars, poolVars, storeVars, searchVars, modVars, rateVars>>

\* The second statement, by the row the SELECT found: DELETE the rows of the
\* user (same vote), UPDATE their vote_type (other vote), or INSERT a row (no
\* vote), which a unique index refuses when the user has a row by now.
WriteVote(v) ==
    LET u == vcall[v].user
        vote == vcall[v].vote
    IN  /\ vpc[v] = "vote"
        /\ IF vcall[v].existing = vote
           THEN /\ post_votes' = [post_votes EXCEPT ![u] = [upvote |-> 0, downvote |-> 0]]
                /\ vpc' = [vpc EXCEPT ![v] = "count"]
                /\ vret' = vret
           ELSE IF vcall[v].existing = Other(vote)
           THEN /\ post_votes' = [post_votes EXCEPT
                                     ![u] = [[upvote |-> 0, downvote |-> 0]
                                                EXCEPT ![vote] = RowsOf(u)]]
                /\ vpc' = [vpc EXCEPT ![v] = "count"]
                /\ vret' = vret
           ELSE IF unique_votes /\ RowsOf(u) > 0
           THEN /\ post_votes' = post_votes
                /\ vpc' = [vpc EXCEPT ![v] = "idle"]
                /\ vret' = [vret EXCEPT ![v] = "err"]
           ELSE /\ post_votes' = [post_votes EXCEPT ![u][vote] = @ + 1]
                /\ vpc' = [vpc EXCEPT ![v] = "count"]
                /\ vret' = vret
        /\ UNCHANGED <<unique_votes, upvotes, downvotes, vcall, votes_started>>
    /\ UNCHANGED <<chunkVars, cacheVars, embedVars, poolVars, storeVars, searchVars, modVars, rateVars>>

Delta(v, t) ==
    IF vcall[v].existing = vcall[v].vote
    THEN (IF t = vcall[v].vote THEN -1 ELSE 0)
    ELSE IF vcall[v].existing = Other(vcall[v].vote)
    THEN (IF t = vcall[v].vote THEN 1 ELSE -1)
    ELSE (IF t = vcall[v].vote THEN 1 ELSE 0)

\* The third statement: UPDATE posts SET upvotes = ..., downvotes = ...
UpdateCounters(v) ==
    /\ vpc[v] = "count"
    /\ upvotes' = upvotes + Delta(v, "upvote")
    /\ downvotes' = downvotes + Delta(v, "downvote")
    /\ vpc' = [vpc EXCEPT ![v] = "read"]
    /\ UNCHANGED <<unique_votes, post_votes, vcall, vret, votes_started>>
    /\ UNCHANGED <<chunkVars, cacheVars, embedVars, poolVars, storeVars, searchVars, modVars, rateVars>>

\* The fourth statement reads the counters, and the call returns them with
\* the vote the user has now.
ReadCounts(v) ==
    /\ vpc[v] = "read"
    /\ vret' = [vret EXCEPT ![v] =
                  IF vcall[v].existing = vcall[v].vote THEN "removed"
                  ELSE vcall[v].vote]
    /\ vpc' = [vpc EXCEPT ![v] = "idle"]
    /\ UNCHANGED <<unique_votes, post_votes, upvotes, downvotes, vcall, votes_started>>
    /\ UNCHANGED <<chunkVars, cacheVars, embedVars, poolVars, storeVars, searchVars, modVars, rateVars>>

\* The statement the call runs next fails and `?` returns the error.
StatementFails(v) ==
    /\ vpc[v] \in {"vote", "count", "read"}
    /\ vret' = [vret EXCEPT ![v] = "err"]
    /\ vpc' = [vpc EXCEPT ![v] = "idle"]
    /\ UNCHANGED <<unique_votes, post_votes, upvotes, downvotes, vcall, votes_started>>
    /\ UNCHANGED <<chunkVars, cacheVars, embedVars, poolVars, storeVars, searchVars, modVars, rateVars>>

VoteNext ==
    \E v \in VoteCalls :
        \/ SelectExisting(v)
        \/ WriteVote(v)
        \/ UpdateCounters(v)
        \/ ReadCounts(v)
        \/ StatementFails(v)

----------------------------------------------------------------------------
(* Specifications *)

\* chunk_text is to be called on a text; the embedder is at rest.
ChunkInit ==
    /\ text \in Texts
    /\ bill_number \in BillNumbers
    /\ cpc = "start"
    /\ chunks1 = <<>>
    /\ chunks2 = <<>>
    /\ pc = [c \in Callers |-> "idle"]
    /\ lockOwner = 0
    /\ cache = 0
    /\ attempts = 0
    /\ successes = 0
    /\ result = [c \in Callers |-> "none"]
    /\ got = [c \in Callers |-> 0]
    /\ calls = [c \in Callers |-> 0]
    /\ waited = [c \in Callers |-> FALSE]
    /\ waitedFail = [c \in Callers |-> FALSE]
    /\ ownAttempt = [c \in Callers |-> "none"]
    /\ in_chunks = <<>>
    /\ texts = <<>>
    /\ all_embeddings = <<>>
    /\ pos = 0
    /\ epc = "start"
    /\ embedded = <<>>
    /\ encodings = <<>>
    /\ weights = 1
    /\ token_ids_padded = <<>>
    /\ attention_masks_padded = <<>>
    /\ hidden = <<>>
    /\ pooled = <<>>
    /\ ppc = "start"
    /\ collection = [exists |-> FALSE, points |-> {}]
    /\ uuids = 0
    /\ spc = "idle"
    /\ collection_exists = FALSE
    /\ ingest_text = <<>>
    /\ points = <<>>
    /\ sent = <<>>
    /\ outcome = [command |-> "none", ok |-> TRUE,
                  error |-> [context |-> "", detail |-> ""]]
    /\ cmds = 0
    /\ stored = 0
    /\ clean = FALSE
    /\ query = <<>>
    /\ limit = 1
    /\ encoder = 1
    /\ query_vector = [vector_of |-> <<>>]
    /\ response = [kind |-> "none", result |-> <<>>]
    /\ results = <<>>
    /\ qpc = "start"
    /\ post = <<>>
    /\ ollama = [kind |-> "none", response |-> <<>>]
    /\ moderation = "none"
    /\ status = "none"
    /\ mpc = "start"
    /\ now = 0
    /\ rate_limits = [t \in 0..MaxTime |-> 0]
    /\ posts = [t \in 0..MaxTime |-> 0]
    /\ hpc = [h \in Submitters |-> "idle"]
    /\ http = [h \in Submitters |-> "none"]
    /\ submissions = 0
    /\ unique_votes = FALSE
    /\ post_votes = [u \in Voters |-> [upvote |-> 0, downvote |-> 0]]
    /\ upvotes = 0
    /\ downvotes = 0
    /\ vpc = [v \in VoteCalls |-> "idle"]
    /\ vcall = [v \in VoteCalls |-> [user |-> 0, vote |-> "none", existing |-> "none"]]
    /\ vret = [v \in VoteCalls |-> "none"]
    /\ votes_started = 0

\* EMBEDDING_MODEL holds None and no caller has arrived; the segmenter and
\* the data path of embed_chunks are at rest.
CacheInit ==
    /\ text = <<>>
    /\ bill_number = ""
    /\ cpc = "start"
    /\ chunks1 = <<>>
    /\ chunks2 = <<>>
    /\ pc = [c \in Callers |-> "idle"]
    /\ lockOwner = 0
    /\ cache = 0
    /\ attempts = 0
    /\ successes = 0
    /\ result = [c \in Callers |-> "none"]
    /\ got = [c \in Callers |-> 0]
    /\ calls = [c \in Callers |-> 0]
    /\ waited = [c \in Callers |-> FALSE]
    /\ waitedFail = [c \in Callers |-> FALSE]
    /\ ownAttempt = [c \in Callers |-> "none"]
    /\ in_chunks = <<>>
    /\ texts = <<>>
    /\ all_embeddings = <<>>
    /\ pos = 0
    /\ epc = "start"
    /\ embedded = <<>>
    /\ encodings = <<>>
    /\ weights = 1
    /\ token_ids_padded = <<>>
    /\ attention_masks_padded = <<>>
    /\ hidden = <<>>
    /\ pooled = <<>>
    /\ ppc = "start"
    /\ collection = [exists |-> FALSE, points |-> {}]
    /\ uuids = 0
    /\ spc = "idle"
    /\ collection_exists = FALSE
    /\ ingest_text = <<>>
    /\ points = <<>>
    /\ sent = <<>>
    /\ outcome = [command |-> "none", ok |-> TRUE,
                  error |-> [context |-> "", detail |-> ""]]
    /\ cmds = 0
    /\ stored = 0
    /\ clean = FALSE
    /\ query = <<>>
    /\ limit = 1
    /\ encoder = 1
    /\ query_vector = [vector_of |-> <<>>]
    /\ response = [kind |-> "none", result |-> <<>>]
    /\ results = <<>>
    /\ qpc = "start"
    /\ post = <<>>
    /\ ollama = [kind |-> "none", response |-> <<>>]
    /\ moderation = "none"
    /\ status = "none"
    /\ mpc = "start"
    /\ now = 0
    /\ rate_limits = [t \in 0..MaxTime |-> 0]
    /\ posts = [t \in 0..MaxTime |-> 0]
    /\ hpc = [h \in Submitters |-> "idle"]
    /\ http = [h \in Submitters |-> "none"]
    /\ submissions = 0
    /\ unique_votes = FALSE
    /\ post_votes = [u \in Voters |-> [upvote |-> 0, downvote |-> 0]]
    /\ upvotes = 0
    /\ downvotes = 0
    /\ vpc = [v \in VoteCalls |-> "idle"]
    /\ vcall = [v \in VoteCalls |-> [user |-> 0, vote |-> "none", existing |-> "none"]]
    /\ vret = [v \in VoteCalls |-> "none"]
    /\ votes_started = 0

\* embed_chunks is to be called on a list of chunks (its model acquired).
EmbedInit ==
    /\ text = <<>>
    /\ bill_number = ""
    /\ cpc = "start"
    /\ chunks1 = <<>>
    /\ chunks2 = <<>>
    /\ pc = [c \in Callers |-> "idle"]
    /\ lockOwner = 0
    /\ cache = 0
    /\ attempts = 0
    /\ successes = 0
    /\ result = [c \in Callers |-> "none"]
    /\ got = [c \in Callers |-> 0]
    /\ calls = [c \in Callers |-> 0]
    /\ waited = [c \in Callers |-> FALSE]
    /\ waitedFail = [c \in Callers |-> FALSE]
    /\ ownAttempt = [c \in Callers |-> "none"]
    /\ in_chunks \in EmbedInputs
    /\ texts = <<>>
    /\ all_embeddings = <<>>
    /\ pos = 0
    /\ epc = "start"
    /\ embedded = <<>>
    /\ encodings = <<>>
    /\ weights = 1
    /\ token_ids_padded = <<>>
    /\ attention_masks_padded = <<>>
    /\ hidden = <<>>
    /\ pooled = <<>>
    /\ ppc = "start"
    /\ collection = [exists |-> FALSE, points |-> {}]
    /\ uuids = 0
    /\ spc = "idle"
    /\ collection_exists = FALSE
    /\ ingest_text = <<>>
    /\ points = <<>>
    /\ sent = <<>>
    /\ outcome = [command |-> "none", ok |-> TRUE,
                  error |-> [context |-> "", detail |-> ""]]
    /\ cmds = 0
    /\ stored = 0
    /\ clean = FALSE
    /\ query = <<>>
    /\ limit = 1
    /\ encoder = 1
    /\ query_vector = [vector_of |-> <<>>]
    /\ response = [kind |-> "none", result |-> <<>>]
    /\ results = <<>>
    /\ qpc = "start"
    /\ post = <<>>
    /\ ollama = [kind |-> "none", response |-> <<>>]
    /\ moderation = "none"
    /\ status = "none"
    /\ mpc = "start"
    /\ now = 0
    /\ rate_limits = [t \in 0..MaxTime |-> 0]
    /\ posts = [t \in 0..MaxTime |-> 0]
    /\ hpc = [h \in Submitters |-> "idle"]
    /\ http = [h \in Submitters |-> "none"]
    /\ submissions = 0
    /\ unique_votes = FALSE
    /\ post_votes = [u \in Voters |-> [upvote |-> 0, downvote |-> 0]]
    /\ upvotes = 0
    /\ downvotes = 0
    /\ vpc = [v \in VoteCalls |-> "idle"]
    /\ vcall = [v \in VoteCalls |-> [user |-> 0, vote |-> "none", existing |-> "none"]]
    /\ vret = [v \in VoteCalls |-> "none"]
    /\ votes_started = 0

\* encode_batch is to be called on a batch of tokenized texts.
PoolInit ==
    /\ text = <<>>
    /\ bill_number = ""
    /\ cpc = "start"
    /\ chunks1 = <<>>
    /\ chunks2 = <<>>
    /\ pc = [c \in Callers |-> "idle"]
    /\ lockOwner = 0
    /\ cache = 0
    /\ attempts = 0
    /\ successes = 0
    /\ result = [c \in Callers |-> "none"]
    /\ got = [c \in Callers |-> 0]
    /\ calls = [c \in Callers |-> 0]
    /\ waited = [c \in Callers |-> FALSE]
    /\ waitedFail = [c \in Callers |-> FALSE]
    /\ ownAttempt = [c \in Callers |-> "none"]
    /\ in_chunks = <<>>
    /\ texts = <<>>
    /\ all_embeddings = <<>>
    /\ pos = 0
    /\ epc = "start"
    /\ embedded = <<>>
    /\ encodings \in Batches
    /\ weights \in 1..2
    /\ token_ids_padded = <<>>
    /\ attention_masks_padded = <<>>
    /\ hidden = <<>>
    /\ pooled = <<>>
    /\ ppc = "start"
    /\ collection = [exists |-> FALSE, points |-> {}]
    /\ uuids = 0
    /\ spc = "idle"
    /\ collection_exists = FALSE
    /\ ingest_text = <<>>
    /\ points = <<>>
    /\ sent = <<>>
    /\ outcome = [command |-> "none", ok |-> TRUE,
                  error |-> [context |-> "", detail |-> ""]]
    /\ cmds = 0
    /\ stored = 0
    /\ clean = FALSE
    /\ query = <<>>
    /\ limit = 1
    /\ encoder = 1
    /\ query_vector = [vector_of |-> <<>>]
    /\ response = [kind |-> "none", result |-> <<>>]
    /\ results = <<>>
    /\ qpc = "start"
    /\ post = <<>>
    /\ ollama = [kind |-> "none", response |-> <<>>]
    /\ moderation = "none"
    /\ status = "none"
    /\ mpc = "start"
    /\ now = 0
    /\ rate_limits = [t \in 0..MaxTime |-> 0]
    /\ posts = [t \in 0..MaxTime |-> 0]
    /\ hpc = [h \in Submitters |-> "idle"]
    /\ http = [h \in Submitters |-> "none"]
    /\ submissions = 0
    /\ unique_votes = FALSE
    /\ post_votes = [u \in Voters |-> [upvote |-> 0, downvote |-> 0]]
    /\ upvotes = 0
    /\ downvotes = 0
    /\ vpc = [v \in VoteCalls |-> "idle"]
    /\ vcall = [v \in VoteCalls |-> [user |-> 0, vote |-> "none", existing |-> "none"]]
    /\ vret = [v \in VoteCalls |-> "none"]
    /\ votes_started = 0

\* No collection yet, and no command has run.
StoreInit ==
    /\ text = <<>>
    /\ bill_number = ""
    /\ cpc = "start"
    /\ chunks1 = <<>>
    /\ chunks2 = <<>>
    /\ pc = [c \in Callers |-> "idle"]
    /\ lockOwner = 0
    /\ cache = 0
    /\ attempts = 0
    /\ successes = 0
    /\ result = [c \in Callers |-> "none"]
    /\ got = [c \in Callers |-> 0]
    /\ calls = [c \in Callers |-> 0]
    /\ waited = [c \in Callers |-> FALSE]
    /\ waitedFail = [c \in Callers |-> FALSE]
    /\ ownAttempt = [c \in Callers |-> "none"]
    /\ in_chunks = <<>>
    /\ texts = <<>>
    /\ all_embeddings = <<>>
    /\ pos = 0
    /\ epc = "start"
    /\ embedded = <<>>
    /\ encodings = <<>>
    /\ weights = 1
    /\ token_ids_padded = <<>>
    /\ attention_masks_padded = <<>>
    /\ hidden = <<>>
    /\ pooled = <<>>
    /\ ppc = "start"
    /\ collection = [exists |-> FALSE, points |-> {}]
    /\ uuids = 0
    /\ spc = "idle"
    /\ collection_exists = FALSE
    /\ ingest_text = <<>>
    /\ points = <<>>
    /\ sent = <<>>
    /\ outcome = [command |-> "none", ok |-> TRUE,
                  error |-> [context |-> "", detail |-> ""]]
    /\ cmds = 0
    /\ stored = 0
    /\ clean = FALSE
    /\ query = <<>>
    /\ limit = 1
    /\ encoder = 1
    /\ query_vector = [vector_of |-> <<>>]
    /\ response = [kind |-> "none", result |-> <<>>]
    /\ results = <<>>
    /\ qpc = "start"
    /\ post = <<>>
    /\ ollama = [kind |-> "none", response |-> <<>>]
    /\ moderation = "none"
    /\ status = "none"
    /\ mpc = "start"
    /\ now = 0
    /\ rate_limits = [t \in 0..MaxTime |-> 0]
    /\ posts = [t \in 0..MaxTime |-> 0]
    /\ hpc = [h \in Submitters |-> "idle"]
    /\ http = [h \in Submitters |-> "none"]
    /\ submissions = 0
    /\ unique_votes = FALSE
    /\ post_votes = [u \in Voters |-> [upvote |-> 0, downvote |-> 0]]
    /\ upvotes = 0
    /\ downvotes = 0
    /\ vpc = [v \in VoteCalls |-> "idle"]
    /\ vcall = [v \in VoteCalls |-> [user |-> 0, vote |-> "none", existing |-> "none"]]
    /\ vret = [v \in VoteCalls |-> "none"]
    /\ votes_started = 0

\* A Query command is to run against a collection.
SearchInit ==
    /\ text = <<>>
    /\ bill_number = ""
    /\ cpc = "start"
    /\ chunks1 = <<>>
    /\ chunks2 = <<>>
    /\ pc = [c \in Callers |-> "idle"]
    /\ lockOwner = 0
    /\ cache = 0
    /\ attempts = 0
    /\ successes = 0
    /\ result = [c \in Callers |-> "none"]
    /\ got = [c \in Callers |-> 0]
    /\ calls = [c \in Callers |-> 0]
    /\ waited = [c \in Callers |-> FALSE]
    /\ waitedFail = [c \in Callers |-> FALSE]
    /\ ownAttempt = [c \in Callers |-> "none"]
    /\ in_chunks = <<>>
    /\ texts = <<>>
    /\ all_embeddings = <<>>
    /\ pos = 0
    /\ epc = "start"
    /\ embedded = <<>>
    /\ encodings = <<>>
    /\ weights = 1
    /\ token_ids_padded = <<>>
    /\ attention_masks_padded = <<>>
    /\ hidden = <<>>
    /\ pooled = <<>>
    /\ ppc = "start"
    /\ collection \in SearchCollections
    /\ uuids = 0
    /\ spc = "idle"
    /\ collection_exists = FALSE
    /\ ingest_text = <<>>
    /\ points = <<>>
    /\ sent = <<>>
    /\ outcome = [command |-> "none", ok |-> TRUE,
                  error |-> [context |-> "", detail |-> ""]]
    /\ cmds = 0
    /\ stored = 0
    /\ clean = FALSE
    /\ query = <<>>
    /\ limit = 1
    /\ encoder \in 1..3
    /\ query_vector = [vector_of |-> <<>>]
    /\ response = [kind |-> "none", result |-> <<>>]
    /\ results = <<>>
    /\ qpc = "start"
    /\ post = <<>>
    /\ ollama = [kind |-> "none", response |-> <<>>]
    /\ moderation = "none"
    /\ status = "none"
    /\ mpc = "start"
    /\ now = 0
    /\ rate_limits = [t \in 0..MaxTime |-> 0]
    /\ posts = [t \in 0..MaxTime |-> 0]
    /\ hpc = [h \in Submitters |-> "idle"]
    /\ http = [h \in Submitters |-> "none"]
    /\ submissions = 0
    /\ unique_votes = FALSE
    /\ post_votes = [u \in Voters |-> [upvote |-> 0, downvote |-> 0]]
    /\ upvotes = 0
    /\ downvotes = 0
    /\ vpc = [v \in VoteCalls |-> "idle"]
    /\ vcall = [v \in VoteCalls |-> [user |-> 0, vote |-> "none", existing |-> "none"]]
    /\ vret = [v \in VoteCalls |-> "none"]
    /\ votes_started = 0

\* A post is submitted; nothing else moves.
ModInit ==
    /\ text = <<>>
    /\ bill_number = ""
    /\ cpc = "start"
    /\ chunks1 = <<>>
    /\ chunks2 = <<>>
    /\ pc = [c \in Callers |-> "idle"]
    /\ lockOwner = 0
    /\ cache = 0
    /\ attempts = 0
    /\ successes = 0
    /\ result = [c \in Callers |-> "none"]
    /\ got = [c \in Callers |-> 0]
    /\ calls = [c \in Callers |-> 0]
    /\ waited = [c \in Callers |-> FALSE]
    /\ waitedFail = [c \in Callers |-> FALSE]
    /\ ownAttempt = [c \in Callers |-> "none"]
    /\ in_chunks = <<>>
    /\ texts = <<>>
    /\ all_embeddings = <<>>
    /\ pos = 0
    /\ epc = "start"
    /\ embedded = <<>>
    /\ encodings = <<>>
    /\ weights = 1
    /\ token_ids_padded = <<>>
    /\ attention_masks_padded = <<>>
    /\ hidden = <<>>
    /\ pooled = <<>>
    /\ ppc = "start"
    /\ collection = [exists |-> FALSE, points |-> {}]
    /\ uuids = 0
    /\ spc = "idle"
    /\ collection_exists = FALSE
    /\ ingest_text = <<>>
    /\ points = <<>>
    /\ sent = <<>>
    /\ outcome = [command |-> "none", ok |-> TRUE,
                  error |-> [context |-> "", detail |-> ""]]
    /\ cmds = 0
    /\ stored = 0
    /\ clean = FALSE
    /\ query = <<>>
    /\ limit = 1
    /\ encoder = 1
    /\ query_vector = [vector_of |-> <<>>]
    /\ response = [kind |-> "none", result |-> <<>>]
    /\ results = <<>>
    /\ qpc = "start"
    /\ post \in Posts(MaxWords)
    /\ ollama = [kind |-> "none", response |-> <<>>]
    /\ moderation = "none"
    /\ status = "none"
    /\ mpc = "start"
    /\ now = 0
    /\ rate_limits = [t \in 0..MaxTime |-> 0]
    /\ posts = [t \in 0..MaxTime |-> 0]
    /\ hpc = [h \in Submitters |-> "idle"]
    /\ http = [h \in Submitters |-> "none"]
    /\ submissions = 0
    /\ unique_votes = FALSE
    /\ post_votes = [u \in Voters |-> [upvote |-> 0, downvote |-> 0]]
    /\ upvotes = 0
    /\ downvotes = 0
    /\ vpc = [v \in VoteCalls |-> "idle"]
    /\ vcall = [v \in VoteCalls |-> [user |-> 0, vote |-> "none", existing |-> "none"]]
    /\ vret = [v \in VoteCalls |-> "none"]
    /\ votes_started = 0

\* The user has no post and no submission in flight.
RateInit ==
    /\ text = <<>>
    /\ bill_number = ""
    /\ cpc = "start"
    /\ chunks1 = <<>>
    /\ chunks2 = <<>>
    /\ pc = [c \in Callers |-> "idle"]
    /\ lockOwner = 0
    /\ cache = 0
    /\ attempts = 0
    /\ successes = 0
    /\ result = [c \in Callers |-> "none"]
    /\ got = [c \in Callers |-> 0]
    /\ calls = [c \in Callers |-> 0]
    /\ waited = [c \in Callers |-> FALSE]
    /\ waitedFail = [c \in Callers |-> FALSE]
    /\ ownAttempt = [c \in Callers |-> "none"]
    /\ in_chunks = <<>>
    /\ texts = <<>>
    /\ all_embeddings = <<>>
    /\ pos = 0
    /\ epc = "start"
    /\ embedded = <<>>
    /\ encodings = <<>>
    /\ weights = 1
    /\ token_ids_padded = <<>>
    /\ attention_masks_padded = <<>>
    /\ hidden = <<>>
    /\ pooled = <<>>
    /\ ppc = "start"
    /\ collection = [exists |-> FALSE, points |-> {}]
    /\ uuids = 0
    /\ spc = "idle"
    /\ collection_exists = FALSE
    /\ ingest_text = <<>>
    /\ points = <<>>
    /\ sent = <<>>
    /\ outcome = [command |-> "none", ok |-> TRUE,
                  error |-> [context |-> "", detail |-> ""]]
    /\ cmds = 0
    /\ stored = 0
    /\ clean = FALSE
    /\ query = <<>>
    /\ limit = 1
    /\ encoder = 1
    /\ query_vector = [vector_of |-> <<>>]
    /\ response = [kind |-> "none", result |-> <<>>]
    /\ results = <<>>
    /\ qpc = "start"
    /\ post = <<>>
    /\ ollama = [kind |-> "none", response |-> <<>>]
    /\ moderation = "none"
    /\ status = "none"
    /\ mpc = "start"
    /\ now = 0
    /\ rate_limits = [t \in 0..MaxTime |-> 0]
    /\ posts = [t \in 0..MaxTime |-> 0]
    /\ hpc = [h \in Submitters |-> "idle"]
    /\ http = [h \in Submitters |-> "none"]
    /\ submissions = 0
    /\ unique_votes = FALSE
    /\ post_votes = [u \in Voters |-> [upvote |-> 0, downvote |-> 0]]
    /\ upvotes = 0
    /\ downvotes = 0
    /\ vpc = [v \in VoteCalls |-> "idle"]
    /\ vcall = [v \in VoteCalls |-> [user |-> 0, vote |-> "none", existing |-> "none"]]
    /\ vret = [v \in VoteCalls |-> "none"]
    /\ votes_started = 0

\* The post has no votes; the schema of post_votes has a unique index on
\* (post_id, user_id) or has none.
VoteInit ==
    /\ text = <<>>
    /\ bill_number = ""
    /\ cpc = "start"
    /\ chunks1 = <<>>
    /\ chunks2 = <<>>
    /\ pc = [c \in Callers |-> "idle"]
    /\ lockOwner = 0
    /\ cache = 0
    /\ attempts = 0
    /\ successes = 0
    /\ result = [c \in Callers |-> "none"]
    /\ got = [c \in Callers |-> 0]
    /\ calls = [c \in Callers |-> 0]
    /\ waited = [c \in Callers |-> FALSE]
    /\ waitedFail = [c \in Callers |-> FALSE]
    /\ ownAttempt = [c \in Callers |-> "none"]
    /\ in_chunks = <<>>
    /\ texts = <<>>
    /\ all_embeddings = <<>>
    /\ pos = 0
    /\ epc = "start"
    /\ embedded = <<>>
    /\ encodings = <<>>
    /\ weights = 1
    /\ token_ids_padded = <<>>
    /\ attention_masks_padded = <<>>
    /\ hidden = <<>>
    /\ pooled = <<>>
    /\ ppc = "start"
    /\ collection = [exists |-> FALSE, points |-> {}]
    /\ uuids = 0
    /\ spc = "idle"
    /\ collection_exists = FALSE
    /\ ingest_text = <<>>
    /\ points = <<>>
    /\ sent = <<>>
    /\ outcome = [command |-> "none", ok |-> TRUE,
                  error |-> [context |-> "", detail |-> ""]]
    /\ cmds = 0
    /\ stored = 0
    /\ clean = FALSE
    /\ query = <<>>
    /\ limit = 1
    /\ encoder = 1
    /\ query_vector = [vector_of |-> <<>>]
    /\ response = [kind |-> "none", result |-> <<>>]
    /\ results = <<>>
    /\ qpc = "start"
    /\ post = <<>>
    /\ ollama = [kind |-> "none", response |-> <<>>]
    /\ moderation = "none"
    /\ status = "none"
    /\ mpc = "start"
    /\ now = 0
    /\ rate_limits = [t \in 0..MaxTime |-> 0]
    /\ posts = [t \in 0..MaxTime |-> 0]
    /\ hpc = [h \in Submitters |-> "idle"]
    /\ http = [h \in Submitters |-> "none"]
    /\ submissions = 0
    /\ unique_votes \in BOOLEAN
    /\ post_votes = [u \in Voters |-> [upvote |-> 0, downvote |-> 0]]
    /\ upvotes = 0
    /\ downvotes = 0
    /\ vpc = [v \in VoteCalls |-> "idle"]
    /\ vcall = [v \in VoteCalls |-> [user |-> 0, vote |-> "none", existing |-> "none"]]
    /\ vret = [v \in VoteCalls |-> "none"]
    /\ votes_started = 0

\* chunk_text called twice on one text.
SpecChunk == ChunkInit /\ [][ChunkNext]_vars

\* Concurrent callers of embed_chunks / embed_query on the encoder cache.
SpecCache == CacheInit /\ [][CacheNext]_vars

\* The same callers under the scheduling of the runtime and of the mutex.
SpecCacheFair == CacheInit /\ [][FairNext]_vars /\ CacheFairness

\* One embed_chunks call on a list of chunks.
SpecEmbed == EmbedInit /\ [][EmbedNext]_vars

\* One encode_batch call, from the tokenizer's output to the pooled vectors.
SpecPool == PoolInit /\ [][PoolNext]_vars

\* Init and Ingest commands run one after the other against the store.
SpecStore == StoreInit /\ [][StoreNext]_vars

\* One Query command: embed_query, then search.
SpecSearch == SearchInit /\ [][SearchNext]_vars

\* One post moderated by check_content.
SpecModerate == ModInit /\ [][ModNext]_vars

\* Concurrent submissions of one user.
SpecRate == RateInit /\ [][RateNext]_vars

\* Concurrent upvote_post and downvote_post calls on one post.
SpecVote == VoteInit /\ [][VoteNext]_vars

----------------------------------------------------------------------------
(* Properties of the segmenter *)

Called == cpc # "start"

HasMarker == find_iter(text) # <<>>

SectionText(k) == Span(text, split_into_sections(text)[k])

PassesNoiseFilter(k) == StrLen(Trim(SectionText(k))) > 50

\* Some section passes the noise filter: chunk_text returns the chunks of its
\* section loop and fallback_chunking is not called.
SectionPath == \E k \in 1..Len(split_into_sections(text)) : PassesNoiseFilter(k)

ChunksAt(p) == {i \in 1..Len(chunks1) : chunks1[i].lo <= p /\ p <= chunks1[i].hi}

SectionsAt(p) == {k \in 1..Len(split_into_sections(text)) :
                     /\ split_into_sections(text)[k].lo <= p
                     /\ p <= split_into_sections(text)[k].hi}

\* C1: the chunks chunk_text returns carry the indices 0, 1, ..., n-1 in
\* order, without gaps, whatever the noise filter discards.
C1_IndicesWithoutGaps ==
    Called => \A i \in 1..Len(chunks1) : chunks1[i].chunk_index = i - 1

\* C2 as stated: with at least one boundary marker in the text, every
\* position of the text lies in the span of exactly one returned chunk.
C2_ChunkSpansCoverText ==
    (Called /\ HasMarker) =>
        \A p \in 1..Len(text) : Cardinality(ChunksAt(p)) = 1

\* C2 amended: with at least one boundary marker in the text the sections
\* cover the text from the first marker to its end, each position once, and
\* nothing before the first marker; when a section passes the noise filter a
\* position lies in exactly one returned chunk if its section passes the
\* filter and in no chunk otherwise.
C2_SectionsCoverFromFirstMarker ==
    (Called /\ HasMarker) =>
        LET first == find_iter(text)[1]
            secs == split_into_sections(text)
            at(p) == {k \in 1..Len(secs) : secs[k].lo <= p /\ p <= secs[k].hi}
            passing == {k \in 1..Len(secs) :
                          StrLen(Trim(Span(text, secs[k]))) > 50}
        IN  /\ \A p \in first..Len(text) : Cardinality(at(p)) = 1
            /\ \A p \in 1..(first - 1) : at(p) = {}
            /\ passing # {} =>
                 \A p \in 1..Len(text) :
                     IF at(p) \cap passing # {}
                     THEN Cardinality(ChunksAt(p)) = 1
                     ELSE ChunksAt(p) = {}

\* C2 witness: a text that begins with a marker, is cut into two sections
\* above the noise floor and is covered by the two chunks.
C2_Witness ==
    /\ Called /\ HasMarker /\ find_iter(text)[1] = 1
    /\ Len(chunks1) = 2
    /\ \A p \in 1..Len(text) : Cardinality(ChunksAt(p)) = 1

\* C7 as stated: every non-empty text yields at least one chunk.
C7_NonEmptyTextYieldsChunk ==
    (Called /\ text # <<>>) => chunks1 # <<>>

HasLongParagraph ==
    \E k \in 1..Len(SplitBlank(text)) :
        StrLen(Trim(Span(text, SplitBlank(text)[k]))) > 100

\* C7 amended: chunk_text returns at least one chunk exactly when the text
\* has a section of trimmed length above 50 or a blank-line paragraph of
\* trimmed length above 100; the empty text yields the empty list.
C7_ChunkIffLongEnough ==
    Called => /\ (chunks1 # <<>>) <=> (SectionPath \/ HasLongParagraph)
              /\ text = <<>> => chunks1 = <<>>

\* C7 witness: a text with markers whose sections are all noise and which
\* gets its chunk from the paragraph accumulator.
C7_Witness ==
    Called /\ HasMarker /\ ~SectionPath /\ chunks1 # <<>>

\* C8: two calls with the same text and bill_number return the same chunk
\* sequence, equal in every field.
C8_Deterministic ==
    cpc = "twice" => chunks1 = chunks2

\* The rules of the classification, in the order of their priority.
Rule1(section) == \E i \in 1..Len(section) : section[i] \in {"bie", "PRE"}
Rule2(section) == \E i \in 1..Len(FirstLine(section)) : FirstLine(section)[i] = "CH"
Rule3(section) == /\ TrimStart(FirstLine(section)) # <<>>
                  /\ Head(TrimStart(FirstLine(section))) \in {"D1", "D2"}
Rule4(section) == \E i \in 1..Len(section) : section[i] \in {"SCH", "sch"}

Matching(section) ==
    {r \in 1..5 : \/ r = 1 /\ Rule1(section)
                  \/ r = 2 /\ Rule2(section)
                  \/ r = 3 /\ Rule3(section)
                  \/ r = 4 /\ Rule4(section)
                  \/ r = 5}

FirstMatching(section) ==
    CHOOSE r \in Matching(section) : \A q \in Matching(section) : r <= q

KindOfRule(r) ==
    CASE r = 1 -> "Preamble" [] r = 2 -> "Section" [] r = 3 -> "Clause"
      [] r = 4 -> "Schedule" [] r = 5 -> "Other"

LabelAgrees(section, r, label) ==
    CASE r = 2 -> Len(label) = 2 /\ label[1] = "Chapter " /\ label[2] \in {"IV", "IVC"}
      [] r = 3 -> label = <<"Clause ",
                            IF Head(TrimStart(FirstLine(section))) = "D1"
                            THEN "1" ELSE "2">>
      [] r = 4 -> label = <<"Schedule">>
      [] OTHER -> TRUE

\* C9: identify_chunk_type gives every section of the text, and every chunk
\* cut from a section, the kind and label of the first matching rule in the
\* order Preamble, chapter heading, numbered clause, schedule, other; two
\* numbered clauses 1 and 2 above the noise floor become the chunks
\* "Clause 1" and "Clause 2".
C9_FirstMatchingRuleWins ==
    Called =>
        LET secs == split_into_sections(text)
            passing == {k \in 1..Len(secs) :
                          StrLen(Trim(Span(text, secs[k]))) > 50}
        IN  /\ \A k \in 1..Len(secs) :
                 LET section == Span(text, secs[k])
                     r == FirstMatching(section)
                     kind == identify_chunk_type(section)
                 IN  /\ kind.type = KindOfRule(r)
                     /\ LabelAgrees(section, r, kind.identifier)
            /\ passing # {} =>
                 \A i \in 1..Len(chunks1) :
                     LET section == SubSeq(text, chunks1[i].lo, chunks1[i].hi)
                         r == FirstMatching(section)
                     IN  /\ chunks1[i].chunk_type = KindOfRule(r)
                         /\ LabelAgrees(section, r, chunks1[i].chunk_identifier)
            /\ ( /\ Len(secs) = 2
                 /\ text[secs[1].lo] = "D1" /\ text[secs[2].lo] = "D2"
                 /\ passing = {1, 2}
                 /\ ~Rule1(text) )
               => /\ Len(chunks1) = 2
                  /\ chunks1[1].chunk_type = "Clause"
                  /\ chunks1[1].chunk_identifier = <<"Clause ", "1">>
                  /\ chunks1[2].chunk_type = "Clause"
                  /\ chunks1[2].chunk_identifier = <<"Clause ", "2">>

\* C9 witness: a numbered clause that mentions "schedule" in its body has
\* been classified.
C9_Witness ==
    /\ Called /\ Len(chunks1) = 1
    /\ chunks1[1].chunk_type = "Clause"
    /\ \E i \in chunks1[1].lo..chunks1[1].hi : text[i] = "sch"

\* C10: the chunks are returned with strictly increasing chunk_index and no
\* two of them overlap: the source text of an earlier chunk ends before the
\* source text of a later chunk begins.
C10_IncreasingAndDisjoint ==
    Called =>
        \A i, j \in 1..Len(chunks1) :
            i < j => /\ chunks1[i].chunk_index < chunks1[j].chunk_index
                     /\ chunks1[i].hi < chunks1[j].lo
                     /\ chunks1[i].lo <= chunks1[i].hi

\* C10 witness: two chunks cut by the paragraph accumulator.
C10_Witness ==
    Called /\ ~SectionPath /\ Len(chunks1) = 2

\* C11: every returned chunk has a body that is not empty and is its own
\* trim, and a section is returned as a chunk exactly when its trimmed length
\* is 51 characters or more.
C11_TrimmedAndAboveNoiseFloor ==
    Called =>
        /\ \A i \in 1..Len(chunks1) :
              /\ chunks1[i].content # <<>>
              /\ ~IsWs(chunks1[i].content[1])
              /\ ~IsWs(chunks1[i].content[Len(chunks1[i].content)])
        /\ LET secs == split_into_sections(text)
           IN  \A k \in 1..Len(secs) :
                 LET trimmed == Trim(Span(text, secs[k]))
                 IN  (\E i \in 1..Len(chunks1) :
                         /\ chunks1[i].lo = secs[k].lo
                         /\ chunks1[i].hi = secs[k].hi
                         /\ chunks1[i].content = trimmed)
                     <=> StrLen(trimmed) >= 51

\* C11 witness: of two sections, the one of 50 characters was discarded and
\* the one of 51 characters was returned.
C11_Witness ==
    /\ Called /\ Len(chunks1) = 1
    /\ StrLen(chunks1[1].content) = 51
    /\ \E k \in 1..Len(split_into_sections(text)) :
          StrLen(Trim(SectionText(k))) = 50

----------------------------------------------------------------------------
(* Properties of the encoder cache *)

HoldsGuard(c) == pc[c] \in {"check", "construct", "drop", "encode"}

\* C3: under every interleaving a successful construction runs once; while a
\* construction is in progress its caller holds the guard, the other callers
\* stand blocked, no second construction runs, none starts once the cache is
\* filled, and every worker gets the one cached model.
C3_SingleConstruction ==
    /\ successes <= 1
    /\ Cardinality(Constructing) <= 1
    /\ \A c \in Constructing :
          /\ lockOwner = c
          /\ cache = 0
          /\ \A d \in Callers \ {c} : ~HoldsGuard(d)
    /\ cache # 0 => successes = 1
    /\ \A c \in Callers : got[c] # 0 => got[c] = cache
    /\ \A c, d \in Callers : (got[c] # 0 /\ got[d] # 0) => got[c] = got[d]

\* C3 witness: one construction ran, a second caller stood blocked during it,
\* and both workers got the same model.
C3_Witness ==
    \E c, d \in Callers :
        /\ c # d /\ attempts = 1 /\ cache = 1
        /\ ownAttempt[c] = "ok" /\ waited[d]
        /\ got[c] = cache /\ got[d] = cache

\* C4 as stated: a caller that stood blocked while a construction failed
\* gets the error from its own acquire.
C4_FailureReachesEveryWaiter ==
    \A c \in Callers : waitedFail[c] => result[c] # "ok"

\* C4 amended: the failure is returned to the caller that ran the failed
\* construction and to no waiter: get_or_init_model returns an error exactly
\* when the construction the caller ran itself failed, and a caller that
\* stood blocked during a failure and then got Ok found or made a filled
\* cache.
C4_FailureReachesItsCaller ==
    \A c \in Callers :
        /\ result[c] = "err" <=> ownAttempt[c] = "fail"
        /\ (waitedFail[c] /\ result[c] = "ok") => cache # 0

\* C4 witness: a caller stood blocked while a construction failed, ran the
\* construction again itself and got Ok.
C4_Witness ==
    \E c \in Callers : waitedFail[c] /\ ownAttempt[c] = "ok" /\ result[c] = "ok"

\* C5: a failed construction leaves the cache empty and the guard free, the
\* next caller that finds the cache empty constructs again, Ok is returned
\* only with a filled cache, a filled cache is never changed, and the unwrap
\* of the worker never meets None.
C5_NoPoisonNoPartialModel ==
    /\ [](\A c \in Callers :
             /\ result[c] = "ok" => cache # 0
             /\ got[c] # -1
             /\ pc[c] = "encode" => cache # 0)
    /\ [][cache # 0 => cache' = cache]_vars
    /\ [][\A c \in Callers :
             (pc[c] = "construct" /\ result'[c] = "err")
                 => (cache' = 0 /\ lockOwner' = 0)]_vars
    /\ [][\A c \in Callers :
             (pc[c] = "check" /\ cache = 0 /\ pc'[c] # "check")
                 => pc'[c] = "construct"]_vars

\* C5 witness: the first construction failed, a later one filled the cache,
\* and a worker unwrapped the model.
C5_Witness ==
    \E c \in Callers : cache >= 2 /\ got[c] = cache

\* C27: under the fair scheduling of the runtime and the mutex, a caller
\* that has entered embed_chunks or embed_query eventually returns, with Ok
\* or with Err, whatever the other callers do.
C27_EveryCallerReturns ==
    \A c \in Callers : (pc[c] # "idle") ~> (pc[c] = "idle")

\* A caller that stood at lock().await while another one was constructing
\* has since returned, and so has every other caller.
C27_Witness ==
    \E c \in Callers :
        /\ waited[c]
        /\ result[c] = "ok"
        /\ \A d \in Callers : pc[d] = "idle" /\ calls[d] > 0

----------------------------------------------------------------------------
(* Properties of embed_chunks *)

\* C6: embed_chunks returns one embedded chunk per chunk, and output i pairs
\* chunk i with the vector of chunk i's text, wherever the batches of 8 end.
C6_OutputMatchesInput ==
    epc = "done" =>
        /\ Len(embedded) = Len(in_chunks)
        /\ \A i \in 1..Len(in_chunks) :
              /\ embedded[i].chunk = in_chunks[i]
              /\ embedded[i].embedding = Embedding(TextOf(in_chunks[i]))

\* C6 witness: a list that takes three batches, the last one partial, with
\* different texts next to each other.
C6_Witness ==
    /\ epc = "done"
    /\ Len(embedded) > 2 * BATCH_SIZE
    /\ Len(embedded) % BATCH_SIZE # 0
    /\ TextOf(in_chunks[BATCH_SIZE]) # TextOf(in_chunks[BATCH_SIZE + 1])

\* C13: when one text cannot be tokenized, embed_chunks never returns
\* vectors: the loop does not get past the batch of that text, the call ends
\* in an error, and no embedded chunk comes back, whichever batch it is in.
C13_BadTextFailsWholeCall ==
    /\ epc = "encoding" => \A i \in 1..pos : Tokenizable(texts[i])
    /\ epc = "done" =>
          \A i \in 1..Len(in_chunks) : Tokenizable(TextOf(in_chunks[i]))
    /\ epc = "failed" =>
          /\ embedded = <<>>
          /\ \E i \in (pos + 1)..Min(pos + BATCH_SIZE, Len(texts)) :
                ~Tokenizable(texts[i])
    /\ (\E i \in 1..Len(in_chunks) : ~Tokenizable(TextOf(in_chunks[i]))) =>
          embedded = <<>>

\* C13 witness: the call failed in a later batch, after the vectors of the
\* first batch had been computed.
C13_Witness ==
    /\ epc = "failed"
    /\ pos >= BATCH_SIZE
    /\ Len(all_embeddings) = pos

----------------------------------------------------------------------------
(* Properties of encode_batch *)

RECURSIVE SumOver(_, _)
SumOver(S, f) ==
    IF S = {} THEN 0
    ELSE LET x == CHOOSE y \in S : TRUE IN f[x] + SumOver(S \ {x}, f)

\* The positions of text i that the tokenizer marked with mask 1.
Unmasked(i) ==
    {p \in 1..Len(encodings[i].attention_mask) :
        encodings[i].attention_mask[p] = 1}

\* C14: the pooled vector of each text of a batch is the sum of its hidden
\* states over the positions with mask 1, divided by the number of those
\* positions, whatever the length the batch was padded to.
C14_MeanOverUnmaskedPositions ==
    ppc = "done" =>
        /\ Len(pooled) = Len(encodings)
        /\ \A i \in 1..Len(encodings) :
              /\ pooled[i].sum = SumOver(Unmasked(i), hidden[i])
              /\ pooled[i].divisor = Cardinality(Unmasked(i))

\* C14 witness: a text shorter than the longest of its batch was padded, and
\* the model's output at a padded position is not zero.
C14_Witness ==
    /\ ppc = "done"
    /\ \E i \in 1..Len(encodings) :
          /\ Len(encodings[i].ids) < Len(hidden[i])
          /\ hidden[i][Len(hidden[i])] # 0
          /\ Cardinality(Unmasked(i)) < Len(encodings[i].ids)

----------------------------------------------------------------------------
(* Properties of the store and of the Init and Ingest commands *)

\* The ids of the points the collection holds.
StoredIds == {q.id : q \in collection.points}

\* The Ingest command is running or was the last to run.
Ingesting == outcome.command = "ingest"

\* The last request of store_chunks failed.
LastFailed == sent # <<>> /\ sent[Len(sent)].reply # "ok"

\* The points of the requests sent, one request after the other.
RECURSIVE Flatten(_)
Flatten(requests) ==
    IF requests = <<>> THEN <<>>
    ELSE requests[1].points \o Flatten(Tail(requests))

\* C12: an empty text gives an empty list of chunks, and its ingestion
\* builds no point and sends no upsert request.
C12_EmptyTextSendsNoUpsert ==
    /\ chunk_text(<<>>, TheBill.bill_number, "uuid-a") = <<>>
    /\ (Ingesting /\ ingest_text = <<>>) => (points = <<>> /\ sent = <<>>)

\* C12 witness: the ingestion of an empty text into an existing collection
\* has returned Ok.
C12_Witness ==
    /\ outcome = Ok("ingest") /\ spc = "idle"
    /\ ingest_text = <<>>
    /\ collection.exists

\* C16: when initialize_collection has returned Ok the collection exists and
\* holds no point, whatever was there before; a second call in a row leaves
\* that state.
C16_InitLeavesEmptyCollection ==
    (spc = "idle" /\ outcome = Ok("init")) =>
        (collection.exists /\ collection.points = {})

\* C16 witness: Init returned Ok as the third command, after it had found
\* the collection that an ingestion had put points into.
C16_Witness ==
    /\ spc = "idle" /\ outcome = Ok("init")
    /\ collection_exists
    /\ sent # <<>> /\ sent[1].reply = "ok"

\* C17: the points of a call have ids that differ from each other and from
\* every id in the collection until they are sent, and while every
\* store_chunks since the last successful Init has succeeded the collection
\* holds as many points as chunks were stored.
C17_FreshIdsCountEveryChunk ==
    /\ Cardinality({points[i].id : i \in 1..Len(points)}) = Len(points)
    /\ spc = "upsert" =>
          {points[i].id : i \in (Len(Flatten(sent)) + 1)..Len(points)}
              \cap StoredIds = {}
    /\ (clean /\ spc = "idle") => Cardinality(collection.points) = stored

\* C17 witness: the same bill of more than one batch was stored a second
\* time since the last Init.
C17_Witness ==
    /\ clean /\ spc = "idle" /\ outcome = Ok("ingest")
    /\ Len(points) > UPSERT_BATCH_SIZE
    /\ stored = 2 * Len(points)

\* C18: after a failed upsert request store_chunks sends no other request
\* and returns an error, and the points of the requests before it stay in
\* the collection while those of the failed and of the later batches are
\* not in it.
C18_StopsAtFailedBatch ==
    /\ \A k \in 1..(Len(sent) - 1) : sent[k].reply = "ok"
    /\ (Ingesting /\ LastFailed) =>
          /\ spc = "idle"
          /\ ~outcome.ok
          /\ \A i \in 1..Len(points) :
                (points[i] \in collection.points)
                    <=> (i <= UPSERT_BATCH_SIZE * (Len(sent) - 1))

\* C18 witness: the second of three batches failed.
C18_Witness ==
    /\ Ingesting /\ LastFailed
    /\ Len(sent) = 2
    /\ Len(points) > 2 * UPSERT_BATCH_SIZE
    /\ points[1] \in collection.points

\* C19: the error of a failed upsert tells which batch failed: it is not the
\* error that the failure of another batch of the call gives.
C19_ErrorNamesFailedBatch ==
    (Ingesting /\ LastFailed) =>
        \A k \in 1..NumBatches(Len(points)) :
            UpsertError(k, sent[Len(sent)].reply) = outcome.error
                => k = Len(sent)

\* C20: the requests hold the points in input order, at most 100 and at least
\* one each, and when store_chunks has returned Ok every point was in
\* exactly one request, the requests all full but the last.
C20_BatchesPartitionInOrder ==
    Ingesting =>
        /\ \A k \in 1..Len(sent) :
              Len(sent[k].points) \in 1..UPSERT_BATCH_SIZE
        /\ Flatten(sent) = SubSeq(points, 1, Len(Flatten(sent)))
        /\ (outcome.ok /\ spc = "idle") =>
              /\ Flatten(sent) = points
              /\ \A k \in 1..(Len(sent) - 1) :
                    Len(sent[k].points) = UPSERT_BATCH_SIZE

\* C20 witness: a bill of 201 chunks was stored in three requests.
C20_Witness ==
    /\ outcome = Ok("ingest") /\ spc = "idle"
    /\ Len(sent) = 3
    /\ Len(sent[3].points) < UPSERT_BATCH_SIZE

----------------------------------------------------------------------------
(* Properties of search and of the Query command *)

\* The search request got a success status and a well-formed list of hits.
Answered == qpc = "done" /\ response.kind = "ok"

\* The score the store gives a point for the query vector.
ScoreOf(p) == Similarity(encoder, query_vector, p.vector)

\* C21: when the store answers a search on a collection of N points, search
\* returns Ok with min(limit, N) results, none for an empty collection, in
\* the order of descending score, and no point left out scores higher than
\* a returned one.
C21_TopHitsInOrder ==
    Answered =>
        /\ outcome = Ok("query")
        /\ Len(results) = Min(limit, Cardinality(collection.points))
        /\ \A i \in 1..(Len(results) - 1) :
              results[i].score >= results[i + 1].score
        /\ \A p \in collection.points :
              \/ \E i \in 1..Len(results) :
                    /\ results[i].content = p.payload.content
                    /\ results[i].score = ScoreOf(p)
              \/ \A i \in 1..Len(results) : results[i].score >= ScoreOf(p)

\* C21 witness: a limit of 2 on three points with different scores.
C21_Witness ==
    /\ Answered
    /\ limit = 2 /\ Cardinality(collection.points) = 3
    /\ results[1].score > results[2].score

\* C22: every SearchResult carries the title and the number of the bill and
\* the identifier and the body of one chunk that store_chunks wrote, and the
\* score the store reported for the point of that chunk.
C22_ResultFromStoredPayload ==
    (qpc = "done" /\ outcome = Ok("query")) =>
        \A i \in 1..Len(results) :
            \E k \in 1..Len(SampleChunks) :
                /\ results[i].bill_title = TheBill.title
                /\ results[i].bill_number = TheBill.bill_number
                /\ results[i].chunk_identifier = SampleChunks[k].chunk_identifier
                /\ results[i].content = SampleChunks[k].content
                /\ \E p \in collection.points :
                      /\ p.payload.chunk_index = SampleChunks[k].chunk_index
                      /\ results[i].score = ScoreOf(p)

\* C22 witness: three results came back for the three stored chunks.
C22_Witness ==
    /\ Answered
    /\ Len(results) = 3
    /\ results[1].content # results[2].content

\* C23: a search whose request failed, or whose response held no result
\* array or a hit without a payload field, returns an error.
C23_NoFailureSwallowed ==
    (qpc = "done" /\ response.kind \notin {"none", "ok"}) => ~outcome.ok

\* C24: a query that is the body of a stored chunk gets the vector stored for
\* that chunk, and the chunk is the first result.
C24_VerbatimQueryFindsChunk ==
    Answered =>
        \A p \in collection.points :
            p.payload.content = query =>
                /\ query_vector = p.vector
                /\ results[1].content = query

\* The paragraphs fallback_chunking keeps, as spans of the text.
LongParagraphs ==
    SelectSeq(SplitBlank(text),
              LAMBDA sp : StrLen(Trim(Span(text, sp))) > 100)

\* chunk_text took the fallback path: no section passed the noise filter.
FellBack == Called /\ ~SectionPath

\* The paragraphs among kept that lie in the span of chunk c.
ParagraphsOf(kept, c) ==
    {k \in 1..Len(kept) : c.lo <= kept[k].lo /\ kept[k].hi <= c.hi}

\* The paragraphs lo..hi of kept, joined by blank lines.
RECURSIVE JoinBlank(_, _, _)
JoinBlank(kept, lo, hi) ==
    IF lo > hi THEN <<>>
    ELSE IF lo = hi THEN Span(text, kept[lo])
    ELSE Span(text, kept[lo]) \o <<"NL", "NL">> \o JoinBlank(kept, lo + 1, hi)

Least(S) == CHOOSE k \in S : \A j \in S : k <= j

Greatest(S) == CHOOSE k \in S : \A j \in S : j <= k

\* C26: on the fallback path the chunks are the kept paragraphs (trimmed
\* length above 100) in order, each chunk a run of consecutive paragraphs
\* joined by blank lines; a chunk ends exactly where the next paragraph would
\* raise its word count above 500, so a chunk of two or more paragraphs has
\* at most 500 words and a chunk above 500 words is one paragraph; the
\* indices are 0, 1, 2, ... without gaps.
C26_FallbackCutsAt500Words ==
    FellBack =>
        LET kept == LongParagraphs
        IN  /\ (chunks1 = <<>>) <=> (kept = <<>>)
            /\ \A i \in 1..Len(chunks1) :
                  LET c == chunks1[i]
                      ps == ParagraphsOf(kept, c)
                      words == WordCount(c.content)
                  IN  /\ c.chunk_index = i - 1
                      /\ ps # {}
                      /\ ps = Least(ps)..Greatest(ps)
                      /\ Least(ps) =
                            IF i = 1 THEN 1
                            ELSE Greatest(ParagraphsOf(kept, chunks1[i - 1])) + 1
                      /\ i = Len(chunks1) => Greatest(ps) = Len(kept)
                      /\ c.content = Trim(JoinBlank(kept, Least(ps), Greatest(ps)))
                      /\ Cardinality(ps) >= 2 => words <= 500
                      /\ words > 500 => Cardinality(ps) = 1
                      /\ i < Len(chunks1) =>
                            words + WordCount(Span(text, kept[Greatest(ps) + 1]))
                              > 500

\* Two paragraphs of 300 and 200 words share a chunk of exactly 500 words,
\* and the paragraph of 201 words after them starts the next chunk.
C26_Witness ==
    /\ FellBack
    /\ Len(chunks1) = 2
    /\ Cardinality(ParagraphsOf(LongParagraphs, chunks1[1])) = 2
    /\ WordCount(chunks1[1].content) = 500
    /\ WordCount(chunks1[2].content) = 201

----------------------------------------------------------------------------
(* Properties of the moderation *)

Moderated == mpc # "start"

\* The lower-cased post holds one of the patterns.
HoldsOneOf(patterns) ==
    \E k \in 1..Len(patterns) : contains(to_lowercase(post), patterns[k])

\* C25: without a reply of the model, a post holding a toxic pattern is
\* sent to AdminReview, also when it holds a spam pattern as well; a post
\* holding a spam pattern and no toxic one is Popcorn; any other is Falafel.
C25_ToxicBeforeSpam ==
    (Moderated /\ ollama.kind # "ok") =>
        /\ HoldsOneOf(toxic_patterns) => moderation = "AdminReview"
        /\ (~HoldsOneOf(toxic_patterns) /\ HoldsOneOf(spam_patterns))
              => moderation = "Popcorn"
        /\ (~HoldsOneOf(toxic_patterns) /\ ~HoldsOneOf(spam_patterns))
              => moderation = "Falafel"

\* "Kill" and "Buy now" in one post, and no reply of the model.
C25_Witness ==
    /\ Moderated
    /\ ollama.kind # "ok"
    /\ HoldsOneOf(toxic_patterns)
    /\ HoldsOneOf(spam_patterns)
    /\ post # to_lowercase(post)
    /\ moderation = "AdminReview"

\* C28: a reply of the model containing "Falafel" yields Falafel and the
\* status approved, one containing "Popcorn" yields Popcorn and the status
\* rejected, any other reply yields AdminReview and pending_review.
C28_ReplyMappedAsPrompted ==
    (Moderated /\ ollama.kind = "ok") =>
        /\ moderation =
              IF contains(ollama.response, Falafel) THEN "Falafel"
              ELSE IF contains(ollama.response, Popcorn) THEN "Popcorn"
              ELSE "AdminReview"
        /\ mpc = "done" =>
              status = CASE moderation = "Falafel" -> "approved"
                         [] moderation = "Popcorn" -> "rejected"
                         [] moderation = "AdminReview" -> "pending_review"

----------------------------------------------------------------------------
(* Properties of the rate limit *)

\* C29: however the submissions of the user interleave, no hour holds more
\* than MAX_POSTS_PER_HOUR created posts of the user.
C29_AtMostMaxPostsPerHour ==
    \A t \in 0..MaxTime :
        RowsSince(posts, t - HourTicks + 1, t) <= MAX_POSTS_PER_HOUR

----------------------------------------------------------------------------
(* Properties of the votes *)

NoVoteInFlight == \A v \in VoteCalls : vpc[v] = "idle"

RECURSIVE VoteRows(_, _)
VoteRows(u, t) ==
    IF u = 0 THEN 0 ELSE post_votes[u][t] + VoteRows(u - 1, t)

\* C30: once every upvote_post and downvote_post call has returned, each
\* user has at most one vote row on the post and the counters of the post
\* are the numbers of its upvote and downvote rows, so neither is negative.
C30_CountersMatchVoteRows ==
    NoVoteInFlight =>
        /\ \A u \in Voters : RowsOf(u) <= 1
        /\ upvotes = VoteRows(NumVoters, "upvote")
        /\ downvotes = VoteRows(NumVoters, "downvote")
        /\ upvotes >= 0
        /\ downvotes >= 0

====
